---- MODULE Spec2Model ----
(***************************************************************************)
(* Canary middleware: the LabelStore (two-generation cache with per-entry  *)
(* locks), the label client (getUserLabels / MustGetUserLabels) and the    *)
(* health gate (healthcheck).                                              *)
(*                                                                         *)
(* Time is counted in ticks; TicksPerSec ticks make one second, so that    *)
(* time.Now().Unix() (whole seconds) and time.Now() (finer) differ.        *)
(***************************************************************************)
EXTENDS Integers, Sequences, FiniteSets, TLC

\* ---------------------------------------------------------------- bounds
MaxTimers == 2
MaxFailures == 4
MaxClock == 7
StartClock == 4
TicksPerSec == 2
\* configuration of the store and of the gate, in ticks
MaxCacheSize == 1
Expiration == 2
CacheCleanDuration == 2
FailuresThreshold == 2
Retry == 2
\* the number of services added to a Balancer
MaxHandlers == 3

\* the goroutines serving requests, and the uids they ask for
Threads == {1, 2}
Uids == {1, 2}
\* entry slots: per uid, one for the maps and one for every running call
EntriesPerUid == Cardinality(Threads) + 1
EntryIds == 1..(Cardinality(Uids) * EntriesPerUid)
SlotsOf(u) == ((u - 1) * EntriesPerUid + 1)..(u * EntriesPerUid)
TimerIds == 1..MaxTimers
Nil == 0
NoThread == 0
ZeroTime == 0

\* a []Label value: the nil slice, or a (possibly empty) list of labels
NilSlice == [isNil |-> TRUE, list |-> <<>>]
List(s) == [isNil |-> FALSE, list |-> s]
EmptyList == List(<<>>)
LenV(v) == Len(v.list)
\* what the label service can put in "result" (absent/null decodes to nil)
ServerResults == {NilSlice, EmptyList, List(<<"a">>)}
\* what the label service can put in "timestamp" (seconds), given now
ServerTimestamps(nowSec) == {-1, 0, 1, nowSec, nowSec + 1}

FreshEntry == [value |-> NilSlice, expireAt |-> ZeroTime, mu |-> NoThread]

VARIABLES
    clock,              \* wall clock, in ticks
    liveMap, staleMap,  \* Store.liveMap, Store.staleMap: uid -> entry id (Nil = nil pointer)
    shouldRound,        \* Store.shouldRound
    maxCacheSize,       \* Store.maxCacheSize
    cacheCleanDuration, \* Store.cacheCleanDuration
    smuR, smuW,         \* Store.mu: set of readers, writer
    entries,            \* the entry objects: value, expireAt, mu (holder)
    pc,                 \* position of each thread
    tuid, tnow,         \* arguments / locals of MustLoadLabels
    te, tok, tround,    \* locals e, ok, round of mustLoadEntry
    fetchLabels,        \* local fetchLabels of MustLoadLabels
    tts, trs,           \* locals ts, rs of MustGetUserLabels
    tout,               \* outcome of the fetch made by the call
    hcFailures,         \* healthcheck.failures
    hcTimer,            \* healthcheck.timer (Nil or a timer id)
    timers,             \* pending timers: id -> fire time (0 = not pending)
    canary,             \* the Canary middleware instance (its configuration)
    req,                \* the request: headers, cookie, what the extractors yield
    rw,                 \* the response writer: headers and cookies set so far
    info,               \* local info (canaryHeader) of processCanary
    storeLabels,        \* what c.ls.MustLoadLabels returns for the request's uid
    calls,              \* what processCanary has consulted
    stage,              \* position of the request in Canary.ServeHTTP
    down,               \* the canaryHeader the next hop reads from the request
    balancer,           \* the Balancer: serviceName, defaultHandler, handlers
    breq,               \* the request at the Balancer: X-Canary values and its outcome
    cfg                 \* the configuration given to the latest NewLabelStore

storeVars == <<liveMap, staleMap, shouldRound, maxCacheSize, cacheCleanDuration, smuR, smuW, entries>>
threadVars == <<pc, tuid, tnow, te, tok, tround, fetchLabels, tts, trs, tout>>
gateVars == <<hcFailures, hcTimer, timers>>
canaryVars == <<canary, req, rw, info, storeLabels, calls, stage, down>>
lrrVars == <<balancer, breq>>
vars == <<clock, storeVars, threadVars, gateVars, canaryVars, lrrVars, cfg>>

\* ---------------------------------------------------------------- helpers
Range(f) == {f[x] : x \in DOMAIN f}

\* time.Now().UTC().Unix(): whole seconds
Unix(t) == t \div TicksPerSec
\* time.Unix(ts, 0): back to an instant
FromUnix(s) == s * TicksPerSec

\* a.Before(b)
Before(a, b) == a < b

\* entry ids referenced from the maps or from a running call
Used(live, stale, es) == (Range(live) \cup Range(stale) \cup Range(es)) \ {Nil}

\* unreferenced entries are collected: their slots return to the fresh state
Collect(ents, used) == [i \in EntryIds |-> IF i \in used THEN ents[i] ELSE FreshEntry]

\* &entry{} for uid u: the lowest free slot of u
NewEntryId(u, used) == CHOOSE i \in SlotsOf(u) \ used : \A j \in SlotsOf(u) \ used : i <= j

MapSet(m, k, v) == [x \in (DOMAIN m) \cup {k} |-> IF x = k THEN v ELSE m[x]]
EmptyMap == [x \in {} |-> Nil]

\* ---------------------------------------------------------------- strings
\* a Go string is the sequence of its characters
Lower == {"a", "b", "c", "d", "e", "f", "g", "h", "i", "j", "k", "l", "m",
          "n", "o", "p", "q", "r", "s", "t", "u", "v", "w", "x", "y", "z"}
Digits == {"0", "1", "2", "3", "4", "5", "6", "7", "8", "9"}
WhiteSpace == {" ", "\t"}
Empty == <<>>

\* strings.HasPrefix(s, p)
HasPrefix(s, p) == Len(s) >= Len(p) /\ SubSeq(s, 1, Len(p)) = p
\* s[n:]
Drop(s, n) == SubSeq(s, n + 1, Len(s))
\* strings.IndexByte(s, c): index of the first c, counted from 0, or -1
IndexByte(s, c) ==
    IF \E i \in 1..Len(s) : s[i] = c
    THEN (CHOOSE i \in 1..Len(s) : s[i] = c /\ \A j \in 1..(i - 1) : s[j] # c) - 1
    ELSE -1

\* strings.TrimSpace(s)
RECURSIVE TrimLeft(_)
TrimLeft(s) == IF s # Empty /\ Head(s) \in WhiteSpace THEN TrimLeft(Tail(s)) ELSE s
RECURSIVE TrimRight(_)
TrimRight(s) ==
    IF s # Empty /\ s[Len(s)] \in WhiteSpace THEN TrimRight(SubSeq(s, 1, Len(s) - 1)) ELSE s
TrimSpace(s) == TrimRight(TrimLeft(s))

\* strings.Index(s, sub): index of the first occurrence, counted from 0, or -1
Index(s, sub) ==
    LET at == {i \in 0..(Len(s) - Len(sub)) : SubSeq(s, i + 1, i + Len(sub)) = sub}
    IN IF at = {} THEN -1 ELSE CHOOSE i \in at : \A j \in at : i <= j

\* strings.TrimRight(s, cutset)
RECURSIVE TrimRightSet(_, _)
TrimRightSet(s, cutset) ==
    IF s # Empty /\ s[Len(s)] \in cutset THEN TrimRightSet(SubSeq(s, 1, Len(s) - 1), cutset)
    ELSE s

\* strings.Split(s, sep) for a one-character separator: always at least one piece
RECURSIVE Split(_, _)
Split(s, sep) ==
    LET i == IndexByte(s, sep)
    IN IF i = -1 THEN <<s>> ELSE <<SubSeq(s, 1, i)>> \o Split(Drop(s, i + 1), sep)

\* strings.Join(pieces, sep)
RECURSIVE Join(_, _)
Join(pieces, sep) ==
    IF pieces = <<>> THEN Empty
    ELSE IF Len(pieces) = 1 THEN pieces[1]
    ELSE pieces[1] \o sep \o Join(Tail(pieces), sep)

\* ---------------------------------------------------------------- canaryHeader
kLabel == <<"l", "a", "b", "e", "l", "=">>
kProduct == <<"p", "r", "o", "d", "u", "c", "t", "=">>
kUid == <<"u", "i", "d", "=">>
kClient == <<"c", "l", "i", "e", "n", "t", "=">>
kChannel == <<"c", "h", "a", "n", "n", "e", "l", "=">>
kApp == <<"a", "p", "p", "=">>
kVersion == <<"v", "e", "r", "s", "i", "o", "n", "=">>
kNofallback == <<"n", "o", "f", "a", "l", "l", "b", "a", "c", "k">>
kTesting == <<"t", "e", "s", "t", "i", "n", "g">>

\* validLabelReg: ^[a-z][0-9a-z-]{1,62}$
validLabelReg(v) ==
    /\ Len(v) >= 2 /\ Len(v) <= 63
    /\ v[1] \in Lower
    /\ \A i \in 2..Len(v) : v[i] \in Lower \cup Digits \cup {"-"}

\* &canaryHeader{}
ZeroHeader ==
    [label |-> Empty, product |-> Empty, uid |-> Empty, client |-> Empty,
     channel |-> Empty, app |-> Empty, version |-> Empty,
     nofallback |-> FALSE, testing |-> FALSE]

\* a feed that takes product= and uid= whatever trust says
feedToken_Trusting(ch, i, val, trust) ==
    LET v == TrimSpace(val)
    IN IF HasPrefix(v, kLabel) THEN [ch EXCEPT !.label = Drop(v, 6)]
       ELSE IF HasPrefix(v, kProduct) THEN [ch EXCEPT !.product = Drop(v, 8)]
       ELSE IF HasPrefix(v, kUid) THEN [ch EXCEPT !.uid = Drop(v, 4)]
       ELSE IF HasPrefix(v, kClient) THEN [ch EXCEPT !.client = Drop(v, 7)]
       ELSE IF HasPrefix(v, kChannel) THEN [ch EXCEPT !.channel = Drop(v, 8)]
       ELSE IF HasPrefix(v, kApp) THEN [ch EXCEPT !.app = Drop(v, 4)]
       ELSE IF HasPrefix(v, kVersion) THEN [ch EXCEPT !.version = Drop(v, 8)]
       ELSE IF v = kNofallback THEN [ch EXCEPT !.nofallback = TRUE]
       ELSE IF v = kTesting THEN [ch EXCEPT !.testing = TRUE]
       ELSE IF i = 0 /\ validLabelReg(v) THEN [ch EXCEPT !.label = v]
       ELSE ch

\* feed, body of the loop: the switch on the trimmed value at index i
feedToken(ch, i, val, trust) ==
    LET v == TrimSpace(val)
    IN IF HasPrefix(v, kLabel) THEN [ch EXCEPT !.label = Drop(v, 6)]
       ELSE IF trust /\ HasPrefix(v, kProduct) THEN [ch EXCEPT !.product = Drop(v, 8)]
       ELSE IF trust /\ HasPrefix(v, kUid) THEN [ch EXCEPT !.uid = Drop(v, 4)]
       ELSE IF HasPrefix(v, kClient) THEN [ch EXCEPT !.client = Drop(v, 7)]
       ELSE IF HasPrefix(v, kChannel) THEN [ch EXCEPT !.channel = Drop(v, 8)]
       ELSE IF HasPrefix(v, kApp) THEN [ch EXCEPT !.app = Drop(v, 4)]
       ELSE IF HasPrefix(v, kVersion) THEN [ch EXCEPT !.version = Drop(v, 8)]
       ELSE IF v = kNofallback THEN [ch EXCEPT !.nofallback = TRUE]
       ELSE IF v = kTesting THEN [ch EXCEPT !.testing = TRUE]
       ELSE IF i = 0 /\ validLabelReg(v) THEN [ch EXCEPT !.label = v]
       ELSE ch

\* feed, the loop over vals from index i on
RECURSIVE feedFrom(_, _, _, _)
feedFrom(ch, vals, i, trust) ==
    IF i >= Len(vals) THEN ch
    ELSE feedFrom(feedToken(ch, i, vals[i + 1], trust), vals, i + 1, trust)

\* canaryHeader.feed (canary.go:406-437)
feed(ch, vals, trust) ==
    LET r == feedFrom(ch, vals, 0, trust)
    IN IF r.testing /\ r.label = Empty THEN [r EXCEPT !.label = kTesting] ELSE r

\* canaryHeader.fromHeader on a zero header; vals is header.Values("X-Canary")
fromHeader(vals, trust) ==
    IF Len(vals) = 1
    THEN IF IndexByte(vals[1], ",") > 0 THEN feed(ZeroHeader, Split(vals[1], ","), trust)
         ELSE IF IndexByte(vals[1], ";") > 0 THEN feed(ZeroHeader, Split(vals[1], ";"), trust)
         ELSE feed(ZeroHeader, vals, trust)
    ELSE feed(ZeroHeader, vals, trust)

\* canaryHeader.String (canary.go:440-471)
String(ch) ==
    IF ch.label = Empty THEN Empty
    ELSE Join(<<kLabel \o ch.label>>
              \o (IF ch.product # Empty THEN <<kProduct \o ch.product>> ELSE <<>>)
              \o (IF ch.uid # Empty THEN <<kUid \o ch.uid>> ELSE <<>>)
              \o (IF ch.client # Empty THEN <<kClient \o ch.client>> ELSE <<>>)
              \o (IF ch.channel # Empty THEN <<kChannel \o ch.channel>> ELSE <<>>)
              \o (IF ch.app # Empty THEN <<kApp \o ch.app>> ELSE <<>>)
              \o (IF ch.version # Empty THEN <<kVersion \o ch.version>> ELSE <<>>)
              \o (IF ch.nofallback THEN <<kNofallback>> ELSE <<>>)
              \o (IF ch.testing THEN <<kTesting>> ELSE <<>>),
              <<",">>)

\* canaryHeader.intoHeader: header.Set("X-Canary", ch.String())
intoHeader(ch) == <<String(ch)>>

\* ---------------------------------------------------------------- Label
\* Label.MatchClient / Label.MatchChannel (part_006:49-73)
\* a match that lets a request without client pass every constraint
MatchClient_EmptyAny(l, client) ==
    client = Empty \/ Len(l.Clients) = 0 \/ \E i \in 1..Len(l.Clients) : l.Clients[i] = client
MatchClient(l, client) == Len(l.Clients) = 0 \/ \E i \in 1..Len(l.Clients) : l.Clients[i] = client
MatchChannel(l, channel) == Len(l.Channels) = 0 \/ \E i \in 1..Len(l.Channels) : l.Channels[i] = channel

\* ---------------------------------------------------------------- Init
\* NewLabelStore (part_006:76-110) and the global hc (uuid.go:200-203)
InitStoreGate ==
    /\ clock = StartClock
    /\ liveMap = EmptyMap
    /\ staleMap = EmptyMap
    /\ shouldRound = StartClock + CacheCleanDuration
    /\ maxCacheSize = MaxCacheSize
    /\ cacheCleanDuration = CacheCleanDuration
    /\ smuR = {}
    /\ smuW = NoThread
    /\ entries = [i \in EntryIds |-> FreshEntry]
    /\ pc = [t \in Threads |-> "idle"]
    /\ tuid = [t \in Threads |-> 1]
    /\ tnow = [t \in Threads |-> 0]
    /\ te = [t \in Threads |-> Nil]
    /\ tok = [t \in Threads |-> FALSE]
    /\ tround = [t \in Threads |-> FALSE]
    /\ fetchLabels = [t \in Threads |-> FALSE]
    /\ tts = [t \in Threads |-> 0]
    /\ trs = [t \in Threads |-> EmptyList]
    /\ tout = [t \in Threads |-> "none"]
    /\ hcFailures = 0
    /\ hcTimer = Nil
    /\ timers = [i \in TimerIds |-> 0]
    /\ cfg = [maxCacheSize |-> MaxCacheSize, cacheCleanDuration |-> CacheCleanDuration]

\* ---------------------------------------------------------------- requests
\* c.product (New refuses an empty one) and what anonymousID yields
Product == <<"p">>
AnonID == <<"a", "n", "o", "n", "-", "0">>

\* pieces of the X-Canary values a client sends
tLabelAb == kLabel \o <<"a", "b">>
tUidE == kUid \o <<"e">>
tProductE == kProduct \o <<"e">>
tClientC == kClient \o <<"c">>
tChannelS == kChannel \o <<"s">>

\* header.Values("X-Canary") of the incoming request: the header lines
XCanaryInputs ==
    { <<>>,
      << <<"a", "b">> >>,
      << tLabelAb >>,
      << <<".", "a", "b">> >>,
      << kTesting >>,
      << tClientC \o <<",">> \o tUidE \o <<",">> \o tProductE >>,
      << tLabelAb \o <<",">> \o tUidE \o <<",">> \o tProductE \o <<",">> \o kNofallback >>,
      << tLabelAb \o <<";", " ">> \o tUidE \o <<";", " ">> \o kTesting >>,
      << <<",", ";">> \o tLabelAb \o <<",">> \o tUidE >>,
      << tClientC, tChannelS >>,
      << tUidE, tLabelAb, kNofallback >>,
      << tLabelAb, tClientC \o <<",">> \o tUidE \o <<",">> \o tProductE >> }

\* req.Cookie("X-Canary"): absent, or its value
CookieInputs ==
    { [present |-> FALSE, value |-> Empty],
      [present |-> TRUE, value |-> <<"c", "d", ",", " ">> \o kNofallback],
      [present |-> TRUE, value |-> kLabel \o <<"c", "d", ",">> \o tUidE] }

\* c.labelsMap.Labels[req.Header.Get(c.labelsMap.RequestHeaderName)]
MappedInputs == {Empty, kLabel \o <<"m", "m">>}

\* what extractUserID finds in the Authorization header and the uid cookies
UserIDs == {Empty, <<"u">>}

\* the lists the label store can return for the uid
LabelLists ==
    { NilSlice,
      EmptyList,
      List(<< [Label |-> <<"x", "c">>, Clients |-> << <<"c">> >>, Channels |-> <<>>],
              [Label |-> <<"x", "s">>, Clients |-> <<>>, Channels |-> << <<"s">> >>],
              [Label |-> <<"x", "a">>, Clients |-> <<>>, Channels |-> <<>>] >>),
      List(<< [Label |-> <<"x", "b">>, Clients |-> << <<"c">>, <<"d">> >>, Channels |-> << <<"s">> >>] >>) }

\* c.rateLimitKey
RateLimitKeys == {<<>>, <<"UID", "X-Key">>}

Canaries ==
    [forwardLabel : BOOLEAN, loadLabels : BOOLEAN, canaryResponseHeader : BOOLEAN,
     sticky : BOOLEAN, labelsMap : BOOLEAN, rateLimitKey : RateLimitKeys,
     addRequestID : {FALSE}]

\* the request-id headers of a request that carries none of them
NoRequestID ==
    [xRequestID |-> Empty, xCARequestID |-> Empty, requestId |-> Empty,
     traceparent |-> Empty, eagleeye |-> Empty]

\* a GET of "/" on host "h" from remote address "i" with header X-Key: k
PlainRequest ==
    [xcanary |-> <<>>, cookie |-> [present |-> FALSE, value |-> Empty],
     mapped |-> Empty, userID |-> Empty, method |-> <<"G", "E", "T">>,
     path |-> <<"/">>, host |-> <<"h">>, xkey |-> <<"k">>, realIp |-> Empty,
     remote |-> [ok |-> TRUE, host |-> <<"i">>], url |-> <<"/">>, ratelimit |-> <<>>]
    @@ NoRequestID

Requests ==
    {[PlainRequest EXCEPT !.xcanary = x, !.cookie = c, !.mapped = m, !.userID = u] :
        x \in XCanaryInputs, c \in CookieInputs, m \in MappedInputs, u \in UserIDs}

\* the response writer before the middleware has touched it
NewResponse == [xcanary |-> <<>>, sticky |-> FALSE, xRequestID |-> Empty]

\* no request is being served
NoRequest ==
    /\ canary = [forwardLabel |-> FALSE, loadLabels |-> FALSE, canaryResponseHeader |-> FALSE,
                 sticky |-> FALSE, labelsMap |-> FALSE, rateLimitKey |-> <<>>,
                 addRequestID |-> FALSE]
    /\ req = PlainRequest
    /\ rw = NewResponse
    /\ info = ZeroHeader
    /\ storeLabels = EmptyList
    /\ calls = {}
    /\ stage = "none"
    /\ down = ZeroHeader

\* ---------------------------------------------------------------- Balancer inputs
\* b.serviceName
ServiceName == <<"c", "o">>

\* the parts of a full service name namespace-serviceName[-variant]-port
Namespaces == {<<"n">>, <<"c", "o">>, <<"x", "c", "o">>}
Variants == {Empty, <<"b">>, <<"b", "c">>}
Ports == {<<"8", "0">>}
Services == [ns : Namespaces, variant : Variants, port : Ports]

\* the full service name of a service
FullName(svc) ==
    svc.ns \o <<"-">> \o ServiceName
        \o (IF svc.variant # Empty THEN <<"-">> \o svc.variant ELSE Empty)
        \o <<"-">> \o svc.port

\* req.Header.Values("X-Canary") of the requests that reach the Balancer
BalancerHeaders ==
    { <<>>,
      << <<"b", "d">> >>,
      << kLabel \o <<"b", "c">> >>,
      << kLabel \o <<"x">> >>,
      << kNofallback >>,
      << kLabel \o <<"b", "d">>, kNofallback >>,
      << kNofallback, kLabel \o <<"b", "c">> >>,
      << kLabel \o <<"b", "d">> \o <<",">> \o kProduct \o <<"p">> \o <<",">> \o kNofallback >>,
      << kProduct \o <<"p">> \o <<",">> \o kNofallback \o <<",">> \o kLabel \o <<"b">> >>,
      << kLabel \o <<"b">> \o <<";", " ">> \o kNofallback >> }

\* a request that has not reached the Balancer
NewBalancerRequest(h) ==
    [xcanary |-> h, label |-> Empty, fallback |-> TRUE, name |-> Empty,
     outcome |-> "none", handler |-> 0]

\* no Balancer
NoBalancer ==
    /\ balancer = [serviceName |-> ServiceName, defaultHandler |-> FALSE, handlers |-> <<>>]
    /\ breq = NewBalancerRequest(<<>>)

\* New(defaultServiceName, handler) (part_002:111-113) and a request
InitBalancer ==
    /\ InitStoreGate
    /\ NoRequest
    /\ balancer \in [serviceName : {ServiceName}, defaultHandler : BOOLEAN, handlers : {<<>>}]
    /\ breq \in {NewBalancerRequest(h) : h \in BalancerHeaders}

\* the store, the client and the gate as constructed; no request
Init == InitStoreGate /\ NoRequest /\ NoBalancer

\* a request arrives at a Canary instance (Canary.ServeHTTP, canary.go:116-120)
InitCanary ==
    /\ InitStoreGate
    /\ NoBalancer
    /\ canary \in Canaries
    /\ req \in {r \in Requests : r.mapped # Empty => canary.labelsMap}
    /\ rw = NewResponse
    /\ info = ZeroHeader
    /\ storeLabels \in LabelLists
    /\ calls = {}
    /\ stage = "parse"
    /\ down = ZeroHeader

\* a string of n characters c
Rep(c, n) == [i \in 1..n |-> c]

\* a traceparent header: version "00", 32 characters of trace-id, 16 of
\* parent-id and the flags, 55 characters in all
Traceparent ==
    <<"0", "0", "-">> \o Rep("a", 32) \o <<"-">> \o Rep("b", 16) \o <<"-", "0", "1">>

\* the request-id headers a request can carry
RequestIDInputs ==
    [xRequestID : {Empty, <<"x">>}, xCARequestID : {Empty, <<"c">>},
     requestId : {Empty, <<"r">>},
     traceparent : {Empty, <<"0", "0", "-", "a">>, Traceparent},
     eagleeye : {Empty, <<"e">>}]

\* what generatorUUID returns: a version 4 UUID, or "" when rand.Read fails
\* (uuid.go:28-39)
GeneratedIDs == {<<"g">>, <<"h">>, Empty}

\* a request arrives at Canary.ServeHTTP, before processRequestID
InitRequestID ==
    /\ InitStoreGate
    /\ NoBalancer
    /\ canary \in [forwardLabel : {FALSE}, loadLabels : {FALSE}, canaryResponseHeader : {FALSE},
                    sticky : {FALSE}, labelsMap : {FALSE}, rateLimitKey : {<<>>},
                    addRequestID : BOOLEAN]
    /\ req \in {[f \in DOMAIN PlainRequest |-> IF f \in DOMAIN i THEN i[f] ELSE PlainRequest[f]] :
                    i \in RequestIDInputs}
    /\ rw = NewResponse
    /\ info = ZeroHeader
    /\ storeLabels = EmptyList
    /\ calls = {}
    /\ stage = "requestid"
    /\ down = ZeroHeader

\* ---------------------------------------------------------------- clock
Tick ==
    /\ clock < MaxClock
    /\ clock' = clock + 1
    /\ UNCHANGED <<storeVars, threadVars, gateVars>>
    /\ UNCHANGED <<canaryVars, lrrVars, cfg>>

\* ---------------------------------------------------------------- LabelStore
\* a call that keeps every uid under one key
MustLoadLabels_OneKey(t, u) ==
    /\ pc[t] = "idle"
    /\ pc' = [pc EXCEPT ![t] = "rlock"]
    /\ tuid' = [tuid EXCEPT ![t] = 1]
    /\ tnow' = [tnow EXCEPT ![t] = clock]
    /\ UNCHANGED <<clock, storeVars, gateVars, te, tok, tround, fetchLabels, tts, trs, tout>>
    /\ UNCHANGED <<canaryVars, lrrVars, cfg>>

\* MustLoadLabels entry: now := time.Now().UTC()
MustLoadLabels(t, u) ==
    /\ pc[t] = "idle"
    /\ pc' = [pc EXCEPT ![t] = "rlock"]
    /\ tuid' = [tuid EXCEPT ![t] = u]
    /\ tnow' = [tnow EXCEPT ![t] = clock]
    /\ UNCHANGED <<clock, storeVars, gateVars, te, tok, tround, fetchLabels, tts, trs, tout>>
    /\ UNCHANGED <<canaryVars, lrrVars, cfg>>

\* a round condition that also holds at the very instant shouldRound
RoundCond_NotAfter(live, now) == Cardinality(DOMAIN live) > maxCacheSize \/ shouldRound <= now

\* round condition of mustLoadEntry
RoundCond(live, now) == Cardinality(DOMAIN live) > maxCacheSize \/ Before(shouldRound, now)

\* a read path that also answers from staleMap, without promoting the entry
RLock_StaleHit(t) ==
    /\ pc[t] = "rlock"
    /\ smuW = NoThread
    /\ smuR' = smuR \cup {t}
    /\ tok' = [tok EXCEPT ![t] = \/ tuid[t] \in DOMAIN liveMap
                                 \/ (tuid[t] \in DOMAIN staleMap /\ staleMap[tuid[t]] # Nil)]
    /\ te' = [te EXCEPT ![t] = IF tuid[t] \in DOMAIN liveMap THEN liveMap[tuid[t]]
                               ELSE IF tuid[t] \in DOMAIN staleMap THEN staleMap[tuid[t]]
                               ELSE Nil]
    /\ tround' = [tround EXCEPT ![t] = RoundCond(liveMap, tnow[t])]
    /\ pc' = [pc EXCEPT ![t] = "runlock"]
    /\ UNCHANGED <<clock, gateVars, liveMap, staleMap, shouldRound, maxCacheSize,
                   cacheCleanDuration, smuW, entries, tuid, tnow, fetchLabels, tts, trs, tout>>
    /\ UNCHANGED <<canaryVars, lrrVars, cfg>>

\* mustLoadEntry: s.mu.RLock(); e, ok := liveMap[key]; round := ...
RLock(t) ==
    /\ pc[t] = "rlock"
    /\ smuW = NoThread
    /\ smuR' = smuR \cup {t}
    /\ tok' = [tok EXCEPT ![t] = tuid[t] \in DOMAIN liveMap]
    /\ te' = [te EXCEPT ![t] = IF tuid[t] \in DOMAIN liveMap THEN liveMap[tuid[t]] ELSE Nil]
    /\ tround' = [tround EXCEPT ![t] = RoundCond(liveMap, tnow[t])]
    /\ pc' = [pc EXCEPT ![t] = "runlock"]
    /\ UNCHANGED <<clock, gateVars, liveMap, staleMap, shouldRound, maxCacheSize,
                   cacheCleanDuration, smuW, entries, tuid, tnow, fetchLabels, tts, trs, tout>>
    /\ UNCHANGED <<canaryVars, lrrVars, cfg>>

\* a fast path that returns without releasing the read lock
RUnlock_KeepsLock(t) ==
    /\ pc[t] = "runlock"
    /\ smuR' = IF tok[t] /\ ~tround[t] THEN smuR ELSE smuR \ {t}
    /\ pc' = [pc EXCEPT ![t] = IF tok[t] /\ ~tround[t] THEN "elock" ELSE "wlock"]
    /\ te' = [te EXCEPT ![t] = IF tok[t] /\ ~tround[t] THEN te[t] ELSE Nil]
    /\ tok' = [tok EXCEPT ![t] = FALSE]
    /\ tround' = [tround EXCEPT ![t] = FALSE]
    /\ entries' = Collect(entries, Used(liveMap, staleMap, te'))
    /\ UNCHANGED <<clock, gateVars, liveMap, staleMap, shouldRound, maxCacheSize,
                   cacheCleanDuration, smuW, tuid, tnow,
                   fetchLabels, tts, trs, tout>>
    /\ UNCHANGED <<canaryVars, lrrVars, cfg>>

\* s.mu.RUnlock(); if ok && !round { return e, round }
\* (on the slow path e, ok and round are recomputed under the write lock)
RUnlock(t) ==
    /\ pc[t] = "runlock"
    /\ smuR' = smuR \ {t}
    /\ pc' = [pc EXCEPT ![t] = IF tok[t] /\ ~tround[t] THEN "elock" ELSE "wlock"]
    /\ te' = [te EXCEPT ![t] = IF tok[t] /\ ~tround[t] THEN te[t] ELSE Nil]
    /\ tok' = [tok EXCEPT ![t] = FALSE]
    /\ tround' = [tround EXCEPT ![t] = FALSE]
    /\ entries' = Collect(entries, Used(liveMap, staleMap, te'))
    /\ UNCHANGED <<clock, gateVars, liveMap, staleMap, shouldRound, maxCacheSize,
                   cacheCleanDuration, smuW, tuid, tnow,
                   fetchLabels, tts, trs, tout>>
    /\ UNCHANGED <<canaryVars, lrrVars, cfg>>

\* s.mu.Lock()
WLock(t) ==
    /\ pc[t] = "wlock"
    /\ smuW = NoThread
    /\ smuR = {}
    /\ smuW' = t
    /\ pc' = [pc EXCEPT ![t] = "wbody"]
    /\ UNCHANGED <<clock, gateVars, liveMap, staleMap, shouldRound, maxCacheSize,
                   cacheCleanDuration, smuR, entries, tuid, tnow, te, tok, tround,
                   fetchLabels, tts, trs, tout>>
    /\ UNCHANGED <<canaryVars, lrrVars, cfg>>

\* a lookup that never consults staleMap
Lookup_IgnoreStale(live, stale, key, fresh) ==
    IF key \in DOMAIN live
    THEN [e |-> live[key], live |-> live, stale |-> stale]
    ELSE [e |-> fresh, live |-> MapSet(live, key, fresh), stale |-> stale]

\* the entry mustLoadEntry settles on under the write lock, and the maps
\* after the lookup / promotion / allocation (part_006:160-171)
Lookup(live, stale, key, fresh) ==
    IF key \in DOMAIN live
    THEN [e |-> live[key], live |-> live, stale |-> stale]
    ELSE IF key \in DOMAIN stale /\ stale[key] # Nil
         THEN [e |-> stale[key], live |-> MapSet(live, key, stale[key]),
               stale |-> MapSet(stale, key, Nil)]
         ELSE [e |-> fresh, live |-> MapSet(live, key, fresh), stale |-> stale]

\* a round that drops both generations
Round_DropLive(live, now) == [shouldRound |-> now + cacheCleanDuration, stale |-> EmptyMap, live |-> EmptyMap]

\* make a round: drop staleMap and create new liveMap (part_006:175-178)
Round(live, now) == [shouldRound |-> now + cacheCleanDuration, stale |-> live, live |-> EmptyMap]

\* a promotion that leaves the entry in staleMap as well
WBody_NoTombstone(t) ==
    /\ pc[t] = "wbody"
    /\ smuW = t
    /\ SlotsOf(tuid[t]) \ Used(liveMap, staleMap, te) # {}
    /\ LET fresh == NewEntryId(tuid[t], Used(liveMap, staleMap, te))
           r == Lookup(liveMap, staleMap, tuid[t], fresh)
           round == RoundCond(r.live, tnow[t])
       IN /\ te' = [te EXCEPT ![t] = r.e]
          /\ IF round
             THEN /\ shouldRound' = Round(r.live, tnow[t]).shouldRound
                  /\ staleMap' = Round(r.live, tnow[t]).stale
                  /\ liveMap' = Round(r.live, tnow[t]).live
             ELSE /\ shouldRound' = shouldRound
                  /\ staleMap' = staleMap
                  /\ liveMap' = r.live
          /\ entries' = Collect(entries, Used(liveMap', staleMap', te'))
    /\ smuW' = NoThread
    /\ pc' = [pc EXCEPT ![t] = "elock"]
    /\ UNCHANGED <<clock, gateVars, maxCacheSize, cacheCleanDuration, smuR, tuid, tnow,
                   tok, tround, fetchLabels, tts, trs, tout>>
    /\ UNCHANGED <<canaryVars, lrrVars, cfg>>

\* mustLoadEntry under the write lock, up to the deferred Unlock (part_006:160-180)
WBody(t) ==
    /\ pc[t] = "wbody"
    /\ smuW = t
    /\ SlotsOf(tuid[t]) \ Used(liveMap, staleMap, te) # {}
    /\ LET fresh == NewEntryId(tuid[t], Used(liveMap, staleMap, te))
           r == Lookup(liveMap, staleMap, tuid[t], fresh)
           round == RoundCond(r.live, tnow[t])
       IN /\ te' = [te EXCEPT ![t] = r.e]
          /\ IF round
             THEN /\ shouldRound' = Round(r.live, tnow[t]).shouldRound
                  /\ staleMap' = Round(r.live, tnow[t]).stale
                  /\ liveMap' = Round(r.live, tnow[t]).live
             ELSE /\ shouldRound' = shouldRound
                  /\ staleMap' = r.stale
                  /\ liveMap' = r.live
          /\ entries' = Collect(entries, Used(liveMap', staleMap', te'))
    /\ smuW' = NoThread
    /\ pc' = [pc EXCEPT ![t] = "elock"]
    /\ UNCHANGED <<clock, gateVars, maxCacheSize, cacheCleanDuration, smuR, tuid, tnow,
                   tok, tround, fetchLabels, tts, trs, tout>>
    /\ UNCHANGED <<canaryVars, lrrVars, cfg>>

\* the expiry test written as !expireAt.After(now)
NeedFetch_NotAfter(ent, now) == ent.value.isNil \/ ent.expireAt <= now

\* e.mu.Lock(); if e.value == nil || e.expireAt.Before(now)  (part_006:121-125)
NeedFetch(ent, now) == ent.value.isNil \/ Before(ent.expireAt, now)

\* ELock taking the entry without waiting for its mutex
ELock_NoMutex(t) ==
    /\ pc[t] = "elock"
    /\ entries' = [entries EXCEPT ![te[t]].mu = t]
    /\ pc' = [pc EXCEPT ![t] = IF NeedFetch(entries[te[t]], tnow[t]) THEN "mget" ELSE "eunlock"]
    /\ UNCHANGED <<clock, gateVars, liveMap, staleMap, shouldRound, maxCacheSize,
                   cacheCleanDuration, smuR, smuW, tuid, tnow, te, tok, tround,
                   fetchLabels, tts, trs, tout>>
    /\ UNCHANGED <<canaryVars, lrrVars, cfg>>

ELock(t) ==
    /\ pc[t] = "elock"
    /\ entries[te[t]].mu = NoThread
    /\ entries' = [entries EXCEPT ![te[t]].mu = t]
    /\ pc' = [pc EXCEPT ![t] = IF NeedFetch(entries[te[t]], tnow[t]) THEN "mget" ELSE "eunlock"]
    /\ UNCHANGED <<clock, gateVars, liveMap, staleMap, shouldRound, maxCacheSize,
                   cacheCleanDuration, smuR, smuW, tuid, tnow, te, tok, tround,
                   fetchLabels, tts, trs, tout>>
    /\ UNCHANGED <<canaryVars, lrrVars, cfg>>

\* ---------------------------------------------------------------- label client
\* healthcheck.MaybeHealthy (uuid.go:230-232)
MaybeHealthy == hcFailures < FailuresThreshold

\* a refused call is booked as a failure
MustGetClosed_Counts(t) ==
    /\ pc[t] = "mget"
    /\ ~MaybeHealthy
    /\ tts' = [tts EXCEPT ![t] = Unix(clock)]
    /\ trs' = [trs EXCEPT ![t] = EmptyList]
    /\ tout' = [tout EXCEPT ![t] = "gateclosed"]
    /\ pc' = [pc EXCEPT ![t] = "cfadd"]
    /\ UNCHANGED <<clock, storeVars, gateVars, tuid, tnow, te, tok, tround, fetchLabels>>
    /\ UNCHANGED <<canaryVars, lrrVars, cfg>>

\* MustGetUserLabels: ts := now.Unix(); rs := []Label{}; gate closed
MustGetClosed(t) ==
    /\ pc[t] = "mget"
    /\ ~MaybeHealthy
    /\ tts' = [tts EXCEPT ![t] = Unix(clock)]
    /\ trs' = [trs EXCEPT ![t] = EmptyList]
    /\ tout' = [tout EXCEPT ![t] = "gateclosed"]
    /\ pc' = [pc EXCEPT ![t] = "assign"]
    /\ UNCHANGED <<clock, storeVars, gateVars, tuid, tnow, te, tok, tround, fetchLabels>>
    /\ UNCHANGED <<canaryVars, lrrVars, cfg>>

\* a canceled fetch that hands back a nil slice
MustGetCtxDone_NilList(t) ==
    /\ pc[t] = "mget"
    /\ MaybeHealthy
    /\ tts' = [tts EXCEPT ![t] = Unix(clock)]
    /\ trs' = [trs EXCEPT ![t] = NilSlice]
    /\ tout' = [tout EXCEPT ![t] = "ctxdone"]
    /\ pc' = [pc EXCEPT ![t] = "assign"]
    /\ UNCHANGED <<clock, storeVars, gateVars, tuid, tnow, te, tok, tround, fetchLabels>>
    /\ UNCHANGED <<canaryVars, lrrVars, cfg>>

\* gate healthy, getUserLabels: ctx.Err() != nil -> return nil, nil
MustGetCtxDone(t) ==
    /\ pc[t] = "mget"
    /\ MaybeHealthy
    /\ tts' = [tts EXCEPT ![t] = Unix(clock)]
    /\ trs' = [trs EXCEPT ![t] = EmptyList]
    /\ tout' = [tout EXCEPT ![t] = "ctxdone"]
    /\ pc' = [pc EXCEPT ![t] = "assign"]
    /\ UNCHANGED <<clock, storeVars, gateVars, tuid, tnow, te, tok, tround, fetchLabels>>
    /\ UNCHANGED <<canaryVars, lrrVars, cfg>>

\* rs declared as a nil slice (var rs []Label) instead of []Label{}
MustGetDo_NilSlice(t) ==
    /\ pc[t] = "mget"
    /\ MaybeHealthy
    /\ tts' = [tts EXCEPT ![t] = Unix(clock)]
    /\ trs' = [trs EXCEPT ![t] = NilSlice]
    /\ tout' = [tout EXCEPT ![t] = "request"]
    /\ pc' = [pc EXCEPT ![t] = "http"]
    /\ UNCHANGED <<clock, storeVars, gateVars, tuid, tnow, te, tok, tround, fetchLabels>>
    /\ UNCHANGED <<canaryVars, lrrVars, cfg>>

\* gate healthy, getUserLabels issues client.Do(req)
MustGetDo(t) ==
    /\ pc[t] = "mget"
    /\ MaybeHealthy
    /\ tts' = [tts EXCEPT ![t] = Unix(clock)]
    /\ trs' = [trs EXCEPT ![t] = EmptyList]
    /\ tout' = [tout EXCEPT ![t] = "request"]
    /\ pc' = [pc EXCEPT ![t] = "http"]
    /\ UNCHANGED <<clock, storeVars, gateVars, tuid, tnow, te, tok, tround, fetchLabels>>
    /\ UNCHANGED <<canaryVars, lrrVars, cfg>>

\* a canceled request is booked as a failure
HttpCanceled_Counts(t) ==
    /\ pc[t] = "http"
    /\ tout' = [tout EXCEPT ![t] = "canceled"]
    /\ pc' = [pc EXCEPT ![t] = "cfadd"]
    /\ UNCHANGED <<clock, storeVars, gateVars, tuid, tnow, te, tok, tround, fetchLabels, tts, trs>>
    /\ UNCHANGED <<canaryVars, lrrVars, cfg>>

\* client.Do fails with context.Canceled: return nil, nil
HttpCanceled(t) ==
    /\ pc[t] = "http"
    /\ tout' = [tout EXCEPT ![t] = "canceled"]
    /\ pc' = [pc EXCEPT ![t] = "assign"]
    /\ UNCHANGED <<clock, storeVars, gateVars, tuid, tnow, te, tok, tround, fetchLabels, tts, trs>>
    /\ UNCHANGED <<canaryVars, lrrVars, cfg>>

\* client.Do fails with any other error: hc.CountFailure() follows
HttpTransportError(t) ==
    /\ pc[t] = "http"
    /\ tout' = [tout EXCEPT ![t] = "transport"]
    /\ pc' = [pc EXCEPT ![t] = "cfadd"]
    /\ UNCHANGED <<clock, storeVars, gateVars, tuid, tnow, te, tok, tround, fetchLabels, tts, trs>>
    /\ UNCHANGED <<canaryVars, lrrVars, cfg>>

\* the kinds of response client.Do can deliver
BadResponses == {"non200", "emptybody", "malformed"}

\* any positive timestamp is taken, a future one included
ClampTimestamp_AnyPositive(stamp, ts) == IF stamp > 0 THEN stamp ELSE ts

\* MustGetUserLabels' use of res.Timestamp (uuid.go:295-297)
ClampTimestamp(stamp, ts) == IF stamp > 0 /\ stamp < ts THEN stamp ELSE ts

\* the body of a response is decoded into rs whatever its status
HttpBadResponse_Decoded(t) ==
    /\ pc[t] = "http"
    /\ \E k \in BadResponses : tout' = [tout EXCEPT ![t] = k]
    /\ trs' = [trs EXCEPT ![t] = List(<<"a">>)]
    /\ pc' = [pc EXCEPT ![t] = "reset"]
    /\ UNCHANGED <<clock, storeVars, gateVars, tuid, tnow, te, tok, tround, fetchLabels, tts>>
    /\ UNCHANGED <<canaryVars, lrrVars, cfg>>

\* a response arrives: hc.Reset() follows; a non-200 status, an empty or an
\* undecodable body give an error, which leaves rs and ts as they are
HttpBadResponse(t) ==
    /\ pc[t] = "http"
    /\ \E k \in BadResponses : tout' = [tout EXCEPT ![t] = k]
    /\ pc' = [pc EXCEPT ![t] = "reset"]
    /\ UNCHANGED <<clock, storeVars, gateVars, tuid, tnow, te, tok, tround, fetchLabels, tts, trs>>
    /\ UNCHANGED <<canaryVars, lrrVars, cfg>>

\* a 200 response with a decodable body: rs = res.Result, ts clamped
HttpOk(t) ==
    /\ pc[t] = "http"
    /\ \E r \in ServerResults, stamp \in ServerTimestamps(Unix(clock)) :
          /\ trs' = [trs EXCEPT ![t] = r]
          /\ tts' = [tts EXCEPT ![t] = ClampTimestamp(stamp, tts[t])]
    /\ tout' = [tout EXCEPT ![t] = "ok"]
    /\ pc' = [pc EXCEPT ![t] = "reset"]
    /\ UNCHANGED <<clock, storeVars, gateVars, tuid, tnow, te, tok, tround, fetchLabels>>
    /\ UNCHANGED <<canaryVars, lrrVars, cfg>>

\* ---------------------------------------------------------------- health gate
\* where a gate operation returns to: the fetch, or the direct caller
GateReturn(t) == IF tout[t] = "direct" THEN "idle" ELSE "assign"
GateOut(t) == IF tout[t] = "direct" THEN "none" ELSE tout[t]

\* hc.CountFailure() called directly, as TestHealthcheck does
GateCountFailure(t) ==
    /\ pc[t] = "idle"
    /\ hcFailures + Cardinality({x \in Threads : pc[x] = "cfadd"}) < MaxFailures
    /\ pc' = [pc EXCEPT ![t] = "cfadd"]
    /\ tout' = [tout EXCEPT ![t] = "direct"]
    /\ UNCHANGED <<clock, storeVars, gateVars, tuid, tnow, te, tok, tround, fetchLabels, tts, trs>>
    /\ UNCHANGED <<canaryVars, lrrVars, cfg>>

\* hc.Reset() called directly, as TestHealthcheck does
GateReset(t) ==
    /\ pc[t] = "idle"
    /\ pc' = [pc EXCEPT ![t] = "reset"]
    /\ tout' = [tout EXCEPT ![t] = "direct"]
    /\ UNCHANGED <<clock, storeVars, gateVars, tuid, tnow, te, tok, tround, fetchLabels, tts, trs>>
    /\ UNCHANGED <<canaryVars, lrrVars, cfg>>

\* an increment that arms the timer whenever the gate is closed after it
CountFailureAdd_ArmWhenClosed(t) ==
    /\ pc[t] = "cfadd"
    /\ hcFailures' = hcFailures + 1
    /\ IF hcFailures + 1 >= FailuresThreshold
       THEN pc' = [pc EXCEPT ![t] = "cfarm"] /\ tout' = tout
       ELSE pc' = [pc EXCEPT ![t] = GateReturn(t)] /\ tout' = [tout EXCEPT ![t] = GateOut(t)]
    /\ UNCHANGED <<clock, storeVars, hcTimer, timers, tuid, tnow, te, tok, tround,
                   fetchLabels, tts, trs>>
    /\ UNCHANGED <<canaryVars, lrrVars, cfg>>

\* CountFailure: i := atomic.AddUint64(&h.failures, 1)
CountFailureAdd(t) ==
    /\ pc[t] = "cfadd"
    /\ hcFailures' = hcFailures + 1
    /\ IF hcFailures + 1 = FailuresThreshold
       THEN pc' = [pc EXCEPT ![t] = "cfarm"] /\ tout' = tout
       ELSE pc' = [pc EXCEPT ![t] = GateReturn(t)] /\ tout' = [tout EXCEPT ![t] = GateOut(t)]
    /\ UNCHANGED <<clock, storeVars, hcTimer, timers, tuid, tnow, te, tok, tround,
                   fetchLabels, tts, trs>>
    /\ UNCHANGED <<canaryVars, lrrVars, cfg>>

\* timer slots neither pending nor referenced by h.timer
FreeTimers == {i \in TimerIds : timers[i] = 0 /\ hcTimer # i}

\* CountFailure: h.timer = time.AfterFunc(h.retry, ...)
CountFailureArm(t) ==
    /\ pc[t] = "cfarm"
    /\ FreeTimers # {}
    /\ LET id == CHOOSE i \in FreeTimers : \A j \in FreeTimers : i <= j
       IN /\ timers' = [timers EXCEPT ![id] = clock + Retry]
          /\ hcTimer' = id
    /\ pc' = [pc EXCEPT ![t] = GateReturn(t)]
    /\ tout' = [tout EXCEPT ![t] = GateOut(t)]
    /\ UNCHANGED <<clock, storeVars, hcFailures, tuid, tnow, te, tok, tround,
                   fetchLabels, tts, trs>>
    /\ UNCHANGED <<canaryVars, lrrVars, cfg>>

\* a callback that stores the threshold itself
TimerFire_StoresThreshold(id) ==
    /\ timers[id] # 0
    /\ clock >= timers[id]
    /\ hcFailures' = FailuresThreshold
    /\ timers' = [timers EXCEPT ![id] = 0]
    /\ UNCHANGED <<clock, storeVars, threadVars, hcTimer>>
    /\ UNCHANGED <<canaryVars, lrrVars, cfg>>

\* the AfterFunc callback: atomic.StoreUint64(&h.failures, threshold-1)
TimerFire(id) ==
    /\ timers[id] # 0
    /\ clock >= timers[id]
    /\ hcFailures' = FailuresThreshold - 1
    /\ timers' = [timers EXCEPT ![id] = 0]
    /\ UNCHANGED <<clock, storeVars, threadVars, hcTimer>>
    /\ UNCHANGED <<canaryVars, lrrVars, cfg>>

\* Reset: atomic.SwapUint64(&h.failures, 0) != 0
ResetSwap(t) ==
    /\ pc[t] = "reset"
    /\ hcFailures' = 0
    /\ IF hcFailures # 0
       THEN pc' = [pc EXCEPT ![t] = "resetstop"] /\ tout' = tout
       ELSE pc' = [pc EXCEPT ![t] = GateReturn(t)] /\ tout' = [tout EXCEPT ![t] = GateOut(t)]
    /\ UNCHANGED <<clock, storeVars, hcTimer, timers, tuid, tnow, te, tok, tround,
                   fetchLabels, tts, trs>>
    /\ UNCHANGED <<canaryVars, lrrVars, cfg>>

\* Reset: && h.timer != nil { h.timer.Stop(); h.timer = nil }
ResetStop(t) ==
    /\ pc[t] = "resetstop"
    /\ IF hcTimer # Nil
       THEN /\ timers' = [timers EXCEPT ![hcTimer] = 0]
            /\ hcTimer' = Nil
       ELSE UNCHANGED <<timers, hcTimer>>
    /\ pc' = [pc EXCEPT ![t] = GateReturn(t)]
    /\ tout' = [tout EXCEPT ![t] = GateOut(t)]
    /\ UNCHANGED <<clock, storeVars, hcFailures, tuid, tnow, te, tok, tround,
                   fetchLabels, tts, trs>>
    /\ UNCHANGED <<canaryVars, lrrVars, cfg>>

\* ---------------------------------------------------------------- back in MustLoadLabels
\* the expiry counted from the call's own now instead of the fetcher's timestamp
Store_FromNow(t, labels, ts) ==
    /\ entries' = [entries EXCEPT ![te[t]].value = labels,
                                  ![te[t]].expireAt = tnow[t] + Expiration]
    /\ fetchLabels' = [fetchLabels EXCEPT ![t] = TRUE]
    /\ pc' = [pc EXCEPT ![t] = "eunlock"]

\* e.value = labels; e.expireAt = time.Unix(ts, 0).Add(ls.expiration); fetchLabels = true
Store(t, labels, ts) ==
    /\ entries' = [entries EXCEPT ![te[t]].value = labels,
                                  ![te[t]].expireAt = FromUnix(ts) + Expiration]
    /\ fetchLabels' = [fetchLabels EXCEPT ![t] = TRUE]
    /\ pc' = [pc EXCEPT ![t] = "eunlock"]

\* an empty list is returned to the caller but never written to the entry
Assign_SkipEmpty(t) ==
    /\ pc[t] = "assign"
    /\ IF LenV(trs[t]) = 0
       THEN /\ entries' = entries
            /\ fetchLabels' = [fetchLabels EXCEPT ![t] = TRUE]
            /\ pc' = [pc EXCEPT ![t] = "eunlock"]
       ELSE Store(t, trs[t], tts[t])
    /\ UNCHANGED <<clock, gateVars, liveMap, staleMap, shouldRound, maxCacheSize,
                   cacheCleanDuration, smuR, smuW, tuid, tnow, te, tok, tround,
                   tts, trs, tout>>
    /\ UNCHANGED <<canaryVars, lrrVars, cfg>>

Assign(t) ==
    /\ pc[t] = "assign"
    /\ Store(t, trs[t], tts[t])
    /\ UNCHANGED <<clock, gateVars, liveMap, staleMap, shouldRound, maxCacheSize,
                   cacheCleanDuration, smuR, smuW, tuid, tnow, te, tok, tround,
                   tts, trs, tout>>
    /\ UNCHANGED <<canaryVars, lrrVars, cfg>>

\* ls.mustFetchLabels is a function field; any implementation returns some
\* list and some timestamp (seconds), and MustLoadLabels stores them
FetcherTimestamps(nowSec) == {nowSec - 1, nowSec, nowSec + 1}

mustFetchLabels(t) ==
    /\ pc[t] = "mget"
    /\ \E r \in ServerResults, stamp \in FetcherTimestamps(Unix(clock)) :
          /\ Store(t, r, stamp)
          /\ trs' = [trs EXCEPT ![t] = r]
          /\ tts' = [tts EXCEPT ![t] = stamp]
    /\ UNCHANGED <<clock, gateVars, liveMap, staleMap, shouldRound, maxCacheSize,
                   cacheCleanDuration, smuR, smuW, tuid, tnow, te, tok, tround, tout>>
    /\ UNCHANGED <<canaryVars, lrrVars, cfg>>

\* the fetcher TestLabelStore installs (lrr.go:170-172): one label made of
\* the request id, stamped time.Now().Unix()
RequestIDs == {"a", "b"}

stubFetchLabels(t) ==
    /\ pc[t] = "mget"
    /\ \E rid \in RequestIDs :
          /\ Store(t, List(<<rid>>), Unix(clock))
          /\ trs' = [trs EXCEPT ![t] = List(<<rid>>)]
          /\ tts' = [tts EXCEPT ![t] = Unix(clock)]
    /\ UNCHANGED <<clock, gateVars, liveMap, staleMap, shouldRound, maxCacheSize,
                   cacheCleanDuration, smuR, smuW, tuid, tnow, te, tok, tround, tout>>
    /\ UNCHANGED <<canaryVars, lrrVars, cfg>>

\* the value a call at "eunlock" is about to return
RetVal(t) == entries[te[t]].value

\* a return that leaves the entry locked
EUnlock_KeepsMutex(t) ==
    /\ pc[t] = "eunlock"
    /\ te' = [te EXCEPT ![t] = Nil]
    /\ entries' = Collect(entries, Used(liveMap, staleMap, te'))
    /\ pc' = [pc EXCEPT ![t] = "idle"]
    /\ tuid' = [tuid EXCEPT ![t] = 1]
    /\ tnow' = [tnow EXCEPT ![t] = 0]
    /\ fetchLabels' = [fetchLabels EXCEPT ![t] = FALSE]
    /\ tts' = [tts EXCEPT ![t] = 0]
    /\ trs' = [trs EXCEPT ![t] = EmptyList]
    /\ tout' = [tout EXCEPT ![t] = "none"]
    /\ UNCHANGED <<clock, gateVars, liveMap, staleMap, shouldRound, maxCacheSize,
                   cacheCleanDuration, smuR, smuW, tok, tround>>
    /\ UNCHANGED <<canaryVars, lrrVars, cfg>>

\* return e.value, with the deferred e.mu.Unlock(); the call's locals go away
EUnlock(t) ==
    /\ pc[t] = "eunlock"
    /\ te' = [te EXCEPT ![t] = Nil]
    /\ entries' = Collect([entries EXCEPT ![te[t]].mu = NoThread], Used(liveMap, staleMap, te'))
    /\ pc' = [pc EXCEPT ![t] = "idle"]
    /\ tuid' = [tuid EXCEPT ![t] = 1]
    /\ tnow' = [tnow EXCEPT ![t] = 0]
    /\ fetchLabels' = [fetchLabels EXCEPT ![t] = FALSE]
    /\ tts' = [tts EXCEPT ![t] = 0]
    /\ trs' = [trs EXCEPT ![t] = EmptyList]
    /\ tout' = [tout EXCEPT ![t] = "none"]
    /\ UNCHANGED <<clock, gateVars, liveMap, staleMap, shouldRound, maxCacheSize,
                   cacheCleanDuration, smuR, smuW, tok, tround>>
    /\ UNCHANGED <<canaryVars, lrrVars, cfg>>

\* ---------------------------------------------------------------- reconfiguration
\* the values of cfg.MaxCacheSize and cacheCleanDuration a construction can give
Configs ==
    [maxCacheSize : {MaxCacheSize, MaxCacheSize + 1},
     cacheCleanDuration : {CacheCleanDuration, CacheCleanDuration + 1}]

\* a construction that makes a new Store every time
NewLabelStore_Fresh(c) ==
    /\ smuW = NoThread
    /\ smuR = {}
    /\ \A t \in Threads : pc[t] = "idle"
    /\ cfg' = c
    /\ maxCacheSize' = c.maxCacheSize
    /\ cacheCleanDuration' = c.cacheCleanDuration
    /\ shouldRound' = clock + c.cacheCleanDuration
    /\ liveMap' = EmptyMap
    /\ staleMap' = EmptyMap
    /\ entries' = [i \in EntryIds |-> FreshEntry]
    /\ UNCHANGED <<clock, smuR, smuW, threadVars, gateVars, canaryVars, lrrVars>>

\* NewLabelStore under a name that stores already holds (part_006:88-101):
\* s.updateConfig(cfg.MaxCacheSize, cacheCleanDuration) under s.mu.Lock()
\* (part_006:140-145)
NewLabelStore(c) ==
    /\ smuW = NoThread
    /\ smuR = {}
    /\ cfg' = c
    /\ maxCacheSize' = c.maxCacheSize
    /\ cacheCleanDuration' = c.cacheCleanDuration
    /\ UNCHANGED <<clock, liveMap, staleMap, shouldRound, smuR, smuW, entries,
                   threadVars, gateVars, canaryVars, lrrVars>>

\* ---------------------------------------------------------------- Canary.processCanary
progVars == <<clock, storeVars, threadVars, gateVars, lrrVars, cfg>>

\* Canary.processRequestID (canary.go:122-145) on request r and response
\* writer w; g is what generatorUUID would return
processRequestID(c, r, w, g) ==
    LET fromClient ==
            IF r.xRequestID # Empty THEN r.xRequestID
            ELSE IF r.xCARequestID # Empty THEN r.xCARequestID
            ELSE r.requestId
        derived ==
            IF Len(r.traceparent) >= 55 THEN SubSeq(r.traceparent, 4, 35)
            ELSE IF Len(r.eagleeye) > 0 THEN r.eagleeye
            ELSE g
        requestID == IF c.addRequestID /\ fromClient = Empty THEN derived ELSE fromClient
    IN [req |-> IF c.addRequestID /\ fromClient = Empty
                THEN [r EXCEPT !.xRequestID = requestID] ELSE r,
        rw |-> IF c.addRequestID THEN [w EXCEPT !.xRequestID = requestID] ELSE w]

\* c.processRequestID(rw, req) (canary.go:117)
ProcessRequestID ==
    /\ stage = "requestid"
    /\ \E g \in GeneratedIDs :
          /\ req' = processRequestID(canary, req, rw, g).req
          /\ rw' = processRequestID(canary, req, rw, g).rw
    /\ stage' = "parse"
    /\ UNCHANGED <<progVars, canary, info, storeLabels, calls, down>>

\* an instance that treats every request as an edge gateway does
ParseHeader_AlwaysEdge ==
    /\ stage = "parse"
    /\ info' = fromHeader(req.xcanary, canary.forwardLabel)
    /\ stage' = "fallback"
    /\ UNCHANGED <<progVars, canary, req, rw, storeLabels, calls, down>>

\* info.fromHeader(req.Header, c.forwardLabel) (canary.go:163-170)
ParseHeader ==
    /\ stage = "parse"
    /\ info' = fromHeader(req.xcanary, canary.forwardLabel)
    /\ stage' = IF canary.forwardLabel THEN "ratelimit" ELSE "fallback"
    /\ UNCHANGED <<progVars, canary, req, rw, storeLabels, calls, down>>

\* label from the X-Canary cookie, then from c.labelsMap (canary.go:172-185)
Fallbacks ==
    /\ stage = "fallback"
    /\ LET fromCookie ==
               IF info.label = Empty /\ req.cookie.present /\ req.cookie.value # Empty
               THEN feed(info, Split(req.cookie.value, ","), FALSE)
               ELSE info
           fromMap ==
               IF fromCookie.label = Empty /\ canary.labelsMap /\ req.mapped # Empty
               THEN feed(fromCookie, Split(req.mapped, ","), FALSE)
               ELSE fromCookie
       IN /\ info' = fromMap
          /\ calls' = calls \cup (IF info.label = Empty THEN {"cookie"} ELSE {})
                            \cup (IF fromCookie.label = Empty /\ canary.labelsMap
                                  THEN {"labelsMap"} ELSE {})
    /\ stage' = "identify"
    /\ UNCHANGED <<progVars, canary, req, rw, storeLabels, down>>

\* info.product = c.product; info.uid = extractUserID(...); anonymous user
\* with sticky: anonymousID and addSticky (canary.go:187-201)
Identify ==
    /\ stage = "identify"
    /\ LET anonymous == req.userID = Empty /\ canary.sticky
       IN /\ info' = [info EXCEPT !.product = Product,
                                  !.uid = IF anonymous THEN AnonID ELSE req.userID]
          /\ rw' = [rw EXCEPT !.sticky = IF anonymous THEN TRUE ELSE @]
          /\ calls' = calls \cup {"extractUserID"} \cup (IF anonymous THEN {"addSticky"} ELSE {})
    /\ stage' = "load"
    /\ UNCHANGED <<progVars, canary, req, storeLabels, down>>

\* a selection that looks at the clients only
rangeLabels_ClientOnly(list, i, ch) ==
    IF \E j \in i..Len(list) : MatchClient(list[j], ch.client)
    THEN [ch EXCEPT !.label =
             list[CHOOSE j \in i..Len(list) :
                      /\ MatchClient(list[j], ch.client)
                      /\ \A k \in i..(j - 1) : ~MatchClient(list[k], ch.client)].Label]
    ELSE ch

\* for _, l := range labels: the first label matching client and channel
\* (canary.go:206-215)
RECURSIVE rangeLabels(_, _, _)
rangeLabels(list, i, ch) ==
    IF i > Len(list) THEN ch
    ELSE IF ~MatchClient(list[i], ch.client) THEN rangeLabels(list, i + 1, ch)
    ELSE IF ~MatchChannel(list[i], ch.channel) THEN rangeLabels(list, i + 1, ch)
    ELSE [ch EXCEPT !.label = list[i].Label]

\* try load labels from server (canary.go:203-216)
LoadLabels ==
    /\ stage = "load"
    /\ IF canary.loadLabels /\ info.label = Empty /\ info.uid # Empty
       THEN /\ info' = rangeLabels(storeLabels.list, 1, info)
            /\ calls' = calls \cup {"store"}
       ELSE UNCHANGED <<info, calls>>
    /\ stage' = "write"
    /\ UNCHANGED <<progVars, canary, req, rw, storeLabels, down>>

\* info.intoHeader(req.Header), and rw.Header() with canaryResponseHeader
\* (canary.go:217-220)
WriteHeader ==
    /\ stage = "write"
    /\ req' = [req EXCEPT !.xcanary = intoHeader(info)]
    /\ rw' = [rw EXCEPT !.xcanary = IF canary.canaryResponseHeader THEN intoHeader(info) ELSE @]
    /\ stage' = "ratelimit"
    /\ UNCHANGED <<progVars, canary, info, storeLabels, calls, down>>

\* req.Header.Get(k) for the headers the model carries
HeaderGet(r, k) == IF k = "X-Key" THEN r.xkey ELSE IF k = "X-Real-Ip" THEN r.realIp ELSE Empty

\* the loop over c.rateLimitKey (canary.go:226-241)
RECURSIVE rateLimitPieces(_, _, _)
rateLimitPieces(ks, ch, r) ==
    IF ks = <<>> THEN <<>>
    ELSE LET k == Head(ks)
             rest == rateLimitPieces(Tail(ks), ch, r)
         IN IF k = "UID" THEN <<ch.uid>> \o rest
            ELSE IF k = "Method" THEN <<r.method>> \o rest
            ELSE IF k = "Path" THEN <<r.path>> \o rest
            ELSE IF k = "Host" THEN <<r.host>> \o rest
            ELSE IF HeaderGet(r, k) # Empty THEN <<HeaderGet(r, k)>> \o rest
            ELSE rest

\* the key set as X-Ratelimit-Key (canary.go:242-251)
rateLimitKey(ks, ch, r) ==
    LET keys == rateLimitPieces(ks, ch, r)
    IN IF Len(keys) = 0
       THEN IF r.realIp # Empty THEN r.realIp
            ELSE IF r.remote.ok THEN r.remote.host
            ELSE r.url
       ELSE Join(keys, <<":">>)

\* rate-limit key (canary.go:223-253): req.Header.Set("X-Ratelimit-Key", ...)
RateLimitKey ==
    /\ stage = "ratelimit"
    /\ req' = [req EXCEPT !.ratelimit =
                  IF Len(canary.rateLimitKey) > 0
                  THEN <<rateLimitKey(canary.rateLimitKey, info, req)>>
                  ELSE @]
    /\ stage' = "next"
    /\ UNCHANGED <<progVars, canary, rw, info, storeLabels, calls, down>>

\* c.next.ServeHTTP(rw, req) (canary.go:119): the next hop, an internal
\* gateway or the balancer, reads X-Canary in trust mode
ServeNext ==
    /\ stage = "next"
    /\ down' = fromHeader(req.xcanary, TRUE)
    /\ stage' = "done"
    /\ UNCHANGED <<progVars, canary, req, rw, info, storeLabels, calls>>

\* ---------------------------------------------------------------- Balancer
\* removeNsPort (part_002:184-190)
removeNsPort(fullServiceName, serviceName) ==
    LET i == Index(fullServiceName, serviceName)
        rest == IF i > 0 THEN Drop(fullServiceName, i) ELSE fullServiceName
    IN TrimRightSet(rest, Digits \cup {"-"})

\* a sort that puts h in front of the handlers of its own length
RECURSIVE insertStable_BeforeEqual(_, _)
insertStable_BeforeEqual(s, h) ==
    IF s = <<>> THEN <<h>>
    ELSE IF Len(Head(s).name) > Len(h.name) THEN <<Head(s)>> \o insertStable_BeforeEqual(Tail(s), h)
    ELSE <<h>> \o s

\* sort.SliceStable by name length, longest first: h goes behind every
\* handler of s that is at least as long
RECURSIVE insertStable(_, _)
insertStable(s, h) ==
    IF s = <<>> THEN <<h>>
    ELSE IF Len(Head(s).name) >= Len(h.name) THEN <<Head(s)>> \o insertStable(Tail(s), h)
    ELSE <<h>> \o s

RECURSIVE sortStable(_)
sortStable(s) ==
    IF s = <<>> THEN <<>>
    ELSE insertStable(sortStable(SubSeq(s, 1, Len(s) - 1)), s[Len(s)])

\* sliceHandler.AppendAndSort (part_002:128-134)
AppendAndSort(s, h) == sortStable(Append(s, h))

\* a Match that looks for a prefix whatever fallback says
Match_AlwaysPrefix(s, name, fallback) ==
    LET hit == {i \in 1..Len(s) : HasPrefix(name, s[i].name)}
    IN IF hit = {} THEN 0 ELSE CHOOSE i \in hit : \A j \in hit : i <= j

\* sliceHandler.Match (part_002:117-126): the index of the first handler
\* that matches, 0 for nil
Match(s, name, fallback) ==
    LET hit == {i \in 1..Len(s) : \/ (fallback /\ HasPrefix(name, s[i].name))
                                   \/ name = s[i].name}
    IN IF hit = {} THEN 0 ELSE CHOOSE i \in hit : \A j \in hit : i <= j

\* Balancer.ServeHTTP, the loop over req.Header.Values("X-Canary")
\* (part_002:146-157); st is the pair label, fallback
RECURSIVE extractFrom(_, _, _)
extractFrom(vals, i, st) ==
    IF i >= Len(vals) THEN st
    ELSE LET v == vals[i + 1]
         IN extractFrom(vals, i + 1,
                IF HasPrefix(v, kLabel) THEN [st EXCEPT !.label = Drop(v, 6)]
                ELSE IF v = kNofallback THEN [st EXCEPT !.fallback = FALSE]
                ELSE IF i = 0 THEN [st EXCEPT !.label = v]
                ELSE st)

\* Balancer.AddService (part_002:178-181); the handler is known by its service
AddService(svc) ==
    /\ breq.outcome = "none"
    /\ Len(balancer.handlers) < MaxHandlers
    /\ balancer' = [balancer EXCEPT !.handlers =
                       AppendAndSort(@, [name |-> removeNsPort(FullName(svc), balancer.serviceName),
                                         svc |-> svc])]
    /\ UNCHANGED <<clock, storeVars, threadVars, gateVars, canaryVars, breq, cfg>>

\* a Balancer that serves the default handler whenever there is one
BalancerServeHTTP_DefaultAlways ==
    /\ breq.outcome = "none"
    /\ LET st == extractFrom(breq.xcanary, 0, [label |-> Empty, fallback |-> TRUE])
           name == IF st.label # Empty
                   THEN balancer.serviceName \o <<"-">> \o st.label
                   ELSE balancer.serviceName
           h == IF st.label # Empty THEN Match(balancer.handlers, name, st.fallback) ELSE 0
       IN breq' = [breq EXCEPT !.label = st.label, !.fallback = st.fallback, !.name = name,
                               !.handler = h,
                               !.outcome = IF h # 0 THEN "variant"
                                           ELSE IF balancer.defaultHandler THEN "default"
                                           ELSE "500"]
    /\ UNCHANGED <<clock, storeVars, threadVars, gateVars, canaryVars, balancer, cfg>>

\* Balancer.ServeHTTP (part_002:143-174)
BalancerServeHTTP ==
    /\ breq.outcome = "none"
    /\ LET st == extractFrom(breq.xcanary, 0, [label |-> Empty, fallback |-> TRUE])
           name == IF st.label # Empty
                   THEN balancer.serviceName \o <<"-">> \o st.label
                   ELSE balancer.serviceName
           h == IF st.label # Empty THEN Match(balancer.handlers, name, st.fallback) ELSE 0
       IN breq' = [breq EXCEPT !.label = st.label, !.fallback = st.fallback, !.name = name,
                               !.handler = h,
                               !.outcome = IF h # 0 THEN "variant"
                                           ELSE IF /\ balancer.defaultHandler
                                                   /\ (st.fallback \/ st.label = Empty)
                                                THEN "default"
                                           ELSE "500"]
    /\ UNCHANGED <<clock, storeVars, threadVars, gateVars, canaryVars, balancer, cfg>>

\* ---------------------------------------------------------------- specifications
StoreStep(t) ==
    \/ RLock(t)
    \/ RUnlock(t)
    \/ WLock(t)
    \/ WBody(t)
    \/ ELock(t)
    \/ EUnlock(t)

\* concurrent callers on several uids, with the fetcher of TestLabelStore
Next ==
    \/ Tick
    \/ \E t \in Threads, u \in Uids : MustLoadLabels(t, u)
    \/ \E t \in Threads : StoreStep(t)
    \/ \E t \in Threads : stubFetchLabels(t)

Spec == Init /\ [][Next]_vars

\* concurrent callers on one uid, with an arbitrary fetcher
NextFetcher ==
    \/ Tick
    \/ \E t \in Threads : MustLoadLabels(t, 1)
    \/ \E t \in Threads : StoreStep(t)
    \/ \E t \in Threads : mustFetchLabels(t)

SpecFetcher == Init /\ [][NextFetcher]_vars

\* one caller of the store with the label client and the health gate; the
\* gate is process-global, so fetches made for other stores fail alongside
ClientStep(t) ==
    \/ MustGetClosed(t)
    \/ MustGetCtxDone(t)
    \/ MustGetDo(t)
    \/ HttpCanceled(t)
    \/ HttpTransportError(t)
    \/ HttpBadResponse(t)
    \/ HttpOk(t)
    \/ Assign(t)

GateStep(t) ==
    \/ CountFailureAdd(t)
    \/ CountFailureArm(t)
    \/ ResetSwap(t)
    \/ ResetStop(t)

NextClient ==
    \/ Tick
    \/ MustLoadLabels(1, 1)
    \/ StoreStep(1)
    \/ ClientStep(1)
    \/ GateCountFailure(2)
    \/ \E t \in Threads : GateStep(t)
    \/ \E i \in TimerIds : TimerFire(i)

SpecClient == Init /\ [][NextClient]_vars

\* the health gate alone: failures pile up, the retry timer re-admits
NextGate ==
    \/ Tick
    \/ \E t \in Threads : GateCountFailure(t)
    \/ \E t \in Threads : CountFailureAdd(t)
    \/ \E t \in Threads : CountFailureArm(t)
    \/ \E i \in TimerIds : TimerFire(i)

SpecGate == Init /\ [][NextGate]_vars

\* two callers on two different uids: the calls of thread 1 ask for uid 1 and
\* their fetch may take for ever; thread 2 asks for uid 2.  The lock sections
\* of thread 1 end (they contain no blocking call), and thread 2 is scheduled
\* and gets a lock that is free again and again (sync.RWMutex and sync.Mutex
\* do not starve a waiter).
NextIsolated ==
    \/ Tick
    \/ MustLoadLabels(1, 1)
    \/ MustLoadLabels(2, 2)
    \/ \E t \in Threads : StoreStep(t)
    \/ \E t \in Threads : stubFetchLabels(t)

SpecIsolated ==
    /\ Init /\ [][NextIsolated]_vars
    /\ WF_vars(RUnlock(1) \/ WBody(1))
    /\ SF_vars(StoreStep(2) \/ stubFetchLabels(2))

\* concurrent callers on several uids while the store is reconfigured, at one
\* instant (time decides what a call does, never whether it waits: rotations
\* come from the size of liveMap here); every fetch returns, every goroutine
\* is scheduled, and a lock that is free again and again is eventually given
\* to each waiter
NextLive ==
    \/ \E t \in Threads, u \in Uids : MustLoadLabels(t, u)
    \/ \E t \in Threads : StoreStep(t)
    \/ \E t \in Threads : stubFetchLabels(t)
    \/ \E c \in Configs : NewLabelStore(c)

SpecLive ==
    /\ Init /\ [][NextLive]_vars
    /\ \A t \in Threads : SF_vars(StoreStep(t) \/ stubFetchLabels(t))

\* the health gate with Reset: failures, successes and the timer interleave
NextGateReset ==
    \/ Tick
    \/ \E t \in Threads : GateCountFailure(t)
    \/ \E t \in Threads : GateReset(t)
    \/ \E t \in Threads : GateStep(t)
    \/ \E i \in TimerIds : TimerFire(i)

SpecGateReset == Init /\ [][NextGateReset]_vars

\* MustGetUserLabels called for another store or uid (the closure of
\* NewLabelStore, part_006:105-108): hc is shared by all of them
MustGetUserLabels(t) ==
    /\ pc[t] = "idle"
    /\ pc' = [pc EXCEPT ![t] = "mget"]
    /\ UNCHANGED <<clock, storeVars, gateVars, tuid, tnow, te, tok, tround,
                   fetchLabels, tts, trs, tout>>
    /\ UNCHANGED <<canaryVars, lrrVars, cfg>>

\* return rs, ts to that caller
Return(t) ==
    /\ pc[t] = "assign"
    /\ te[t] = Nil
    /\ pc' = [pc EXCEPT ![t] = "idle"]
    /\ tts' = [tts EXCEPT ![t] = 0]
    /\ trs' = [trs EXCEPT ![t] = EmptyList]
    /\ tout' = [tout EXCEPT ![t] = "none"]
    /\ UNCHANGED <<clock, storeVars, gateVars, tuid, tnow, te, tok, tround, fetchLabels>>
    /\ UNCHANGED <<canaryVars, lrrVars, cfg>>

ProbeStep(t) ==
    \/ MustGetClosed(t)
    \/ MustGetCtxDone(t)
    \/ MustGetDo(t)
    \/ HttpCanceled(t)
    \/ HttpTransportError(t)
    \/ HttpBadResponse(t)
    \/ HttpOk(t)
    \/ Return(t)

\* concurrent fetches on the process-wide gate
NextProbe ==
    \/ Tick
    \/ \E t \in Threads : MustGetUserLabels(t)
    \/ \E t \in Threads : ProbeStep(t)
    \/ \E t \in Threads : GateStep(t)
    \/ \E i \in TimerIds : TimerFire(i)

SpecProbe == Init /\ [][NextProbe]_vars

\* one request through Canary.ServeHTTP, for every configuration and request
NextCanary ==
    \/ ParseHeader
    \/ Fallbacks
    \/ Identify
    \/ LoadLabels
    \/ WriteHeader
    \/ RateLimitKey
    \/ ServeNext

SpecCanary == InitCanary /\ [][NextCanary]_vars

\* Canary.ServeHTTP up to the end of processRequestID, for every combination
\* of the request-id headers
NextRequestID == ProcessRequestID

SpecRequestID == InitRequestID /\ [][NextRequestID]_vars

\* the values of c.rateLimitKey for which the key is computed
RateLimitConfigs ==
    { <<"UID">>, <<"X-Key">>, <<"UID", "X-Key">>, <<"Method", "Path", "Host">>,
      <<"Path", "X-Key">>, <<"X-Key", "X-Real-Ip">> }

\* processCanary has resolved info and is about to compute the rate-limit
\* key (canary.go:223)
InitRateLimit ==
    /\ InitStoreGate
    /\ NoBalancer
    /\ canary \in [forwardLabel : {FALSE}, loadLabels : {FALSE}, canaryResponseHeader : {FALSE},
                    sticky : {FALSE}, labelsMap : {FALSE}, rateLimitKey : RateLimitConfigs,
                    addRequestID : {FALSE}]
    /\ req \in {[PlainRequest EXCEPT !.path = p, !.host = h, !.xkey = k, !.realIp = i,
                                      !.remote = a] :
                    p \in {Empty, <<"/">>}, h \in {Empty, <<"h">>}, k \in {Empty, <<"k">>},
                    i \in {Empty, <<"r">>},
                    a \in {[ok |-> TRUE, host |-> <<"i">>], [ok |-> FALSE, host |-> Empty]}}
    /\ rw = NewResponse
    /\ info \in {[ZeroHeader EXCEPT !.product = Product, !.uid = u] : u \in UserIDs}
    /\ storeLabels = EmptyList
    /\ calls = {}
    /\ stage = "ratelimit"
    /\ down = ZeroHeader

NextRateLimit ==
    \/ RateLimitKey
    \/ ServeNext

SpecRateLimit == InitRateLimit /\ [][NextRateLimit]_vars

\* a caller on several uids, with the fetcher of TestLabelStore, while the
\* middleware is constructed again under the same name
NextReconfig ==
    \/ Tick
    \/ \E u \in Uids : MustLoadLabels(1, u)
    \/ StoreStep(1)
    \/ stubFetchLabels(1)
    \/ \E c \in Configs : NewLabelStore(c)

SpecReconfig == Init /\ [][NextReconfig]_vars

\* a Balancer is built, services are added to it, then it serves a request
NextBalancer ==
    \/ \E svc \in Services : AddService(svc)
    \/ BalancerServeHTTP

SpecBalancer == InitBalancer /\ [][NextBalancer]_vars

\* the slot values of the headers that are serialized and parsed back
SlotValues == {Empty, <<"a", "b">>, <<"c", ",">> \o tUidE}

\* a canaryHeader is about to be written into the request by an edge gateway
InitRoundTrip ==
    /\ InitStoreGate
    /\ NoBalancer
    /\ canary \in {c \in Canaries : /\ ~c.forwardLabel /\ ~c.loadLabels /\ ~c.sticky
                                    /\ ~c.labelsMap /\ c.rateLimitKey = <<>>}
    /\ req = PlainRequest
    /\ rw = NewResponse
    /\ info \in [label : SlotValues, product : SlotValues, uid : SlotValues,
                 client : SlotValues, channel : SlotValues, app : {Empty, <<"a", "b">>},
                 version : {Empty, <<"a", "b">>}, nofallback : BOOLEAN, testing : BOOLEAN]
    /\ storeLabels = EmptyList
    /\ calls = {}
    /\ stage = "write"
    /\ down = ZeroHeader

\* serialize, then parse in trust mode
NextRoundTrip ==
    \/ WriteHeader
    \/ RateLimitKey
    \/ ServeNext

SpecRoundTrip == InitRoundTrip /\ [][NextRoundTrip]_vars

TypeOK ==
    /\ clock \in StartClock..MaxClock
    /\ smuW \in Threads \cup {NoThread}
    /\ smuR \subseteq Threads
    /\ \A t \in Threads : te[t] \in EntryIds \cup {Nil}

\* ---------------------------------------------------------------- properties
\* a call is inside ls.mustFetchLabels
FetchPcs == {"mget", "http", "cfadd", "cfarm", "reset", "resetstop"}
InFlight(t) == pc[t] \in FetchPcs
\* the entries the maps hold
MapEntries == (Range(liveMap) \cup Range(staleMap)) \ {Nil}
\* the call of t has fetched and is about to return
Fetched(t) == pc[t] = "eunlock" /\ fetchLabels[t]
\* the call of w waits for the entry the call of t holds
Waits(w, t) == w # t /\ pc[w] = "elock" /\ te[w] = te[t]
\* a call made at now finds the entry absent or expired
Stale(ent, now) == ent.value.isNil \/ ent.expireAt < now

\* C1 (as claimed): in every reachable state, for each uid at most one
\* label-service fetch is in flight, whatever rotations happen meanwhile.
C1_OneFetchPerUid ==
    \A t1, t2 \in Threads :
        (t1 # t2 /\ InFlight(t1) /\ InFlight(t2)) => tuid[t1] # tuid[t2]

C1_PerEntry ==
    \A t1, t2 \in Threads :
        (t1 # t2 /\ InFlight(t1) /\ InFlight(t2) /\ tuid[t1] = tuid[t2])
            => /\ te[t1] # te[t2]
               /\ ~(te[t1] \in MapEntries /\ te[t2] \in MapEntries)

\* C1 (amended): at most one fetch is in flight per entry, hence at most one
\* per uid on the entry the maps hold for it; two fetches for one uid are in
\* flight only on distinct entries of which at most one is still in the maps,
\* and an entry leaves the maps only when a rotation drops the stale generation.
C1_SingleFlightPerEntry ==
    [][/\ C1_PerEntry'
       /\ (MapEntries \ MapEntries' # {})
             => /\ liveMap' = EmptyMap
                /\ (MapEntries \ MapEntries') \cap Range(liveMap) = {}]_vars

\* a rotation happened during a fetch and a second call for the uid still
\* found the entry being fetched, so that it waits instead of fetching
C1_Witness ==
    \E t1, t2 \in Threads :
        /\ InFlight(t1) /\ Waits(t2, t1) /\ tuid[t1] = tuid[t2]
        /\ te[t1] \in Range(staleMap)

\* the step in which the call of t returns from ls.mustFetchLabels and stores
Stores(t) == pc[t] \in {"mget", "assign"} /\ pc'[t] = "eunlock"
\* the step in which the call of t gets the entry lock and tests the entry
Locks(t) == pc[t] = "elock" /\ pc'[t] # "elock"

\* C2 (as claimed): when calls for one uid start while its entry is absent or
\* expired, the fetch made by the first leaves nothing to fetch for the calls
\* that waited on the entry lock.
C2_WaitersNeverFetch ==
    [][\A t, w \in Threads :
          (Stores(t) /\ Waits(w, t) /\ Stale(entries[te[t]], tnow[w]))
              => ~Stale(entries'[te[t]], tnow[w])]_vars

\* C2 (amended): the calls that waited on the entry lock see exactly what the
\* one fetch stored (its list, and its timestamp plus expiration); a waiter
\* returns that list without fetching unless the stored list is nil or its
\* expireAt is before the waiter's own start time, in which case it fetches again.
C2_WaitersSeeTheFetch ==
    [][\A t \in Threads :
          /\ \A w \in Threads :
                (Stores(t) /\ Waits(w, t)) =>
                    /\ entries'[te[t]].value = trs'[t]
                    /\ entries'[te[t]].expireAt = FromUnix(tts'[t]) + Expiration
                    /\ pc'[w] = "elock" /\ te'[w] = te[t]
          /\ Locks(t) =>
                IF entries[te[t]].value.isNil \/ entries[te[t]].expireAt < tnow[t]
                THEN pc'[t] = "mget"
                ELSE /\ pc'[t] = "eunlock" /\ ~fetchLabels'[t]
                     /\ entries'[te[t]].value = entries[te[t]].value]_vars

\* one call has fetched, another waited meanwhile and will return that list
C2_Witness ==
    \E t, w \in Threads :
        /\ Fetched(t) /\ Waits(w, t)
        /\ tnow[w] < clock
        /\ ~Stale(entries[te[t]], tnow[w])
        /\ entries[te[t]].value = trs[t] /\ LenV(trs[t]) > 0

\* C3 (as claimed): whatever the fetcher returns, a second call within
\* expiration of the first causes no second fetch, and a call more than
\* expiration after the first causes one.
C3_TTLFromFirstCall ==
    \A t, w \in Threads :
        (Fetched(t) /\ Waits(w, t) /\ tnow[t] <= tnow[w]) =>
            IF tnow[w] - tnow[t] <= Expiration
            THEN ~Stale(entries[te[t]], tnow[w])
            ELSE Stale(entries[te[t]], tnow[w])

\* C3 (amended): the TTL runs from the timestamp the fetcher returned: after a
\* fetch that returned list l and timestamp ts (seconds), a call made at now
\* fetches again exactly when l is nil or ts + expiration < now; a call that
\* fetches returns the list it fetched.
C3_TTLFromTimestamp ==
    \A t \in Threads :
        Fetched(t) =>
            /\ RetVal(t) = trs[t]
            /\ \A w \in Threads :
                  Waits(w, t) =>
                      (Stale(entries[te[t]], tnow[w])
                          <=> (trs[t].isNil \/ FromUnix(tts[t]) + Expiration < tnow[w]))

\* a second call started within expiration of the first, but after the
\* fetched timestamp plus expiration: it fetches again
C3_Witness ==
    \E t, w \in Threads :
        /\ Fetched(t) /\ Waits(w, t)
        /\ tnow[t] <= tnow[w] /\ tnow[w] - tnow[t] <= Expiration
        /\ ~trs[t].isNil
        /\ FromUnix(tts[t]) + Expiration < tnow[w]

\* the fetch outcomes in which the label service was asked and gave no labels
TransientErrors == {"transport"} \cup BadResponses
\* the call of t is back from the fetch and writes the entry
Assigns(t) == pc[t] = "assign" /\ pc'[t] = "eunlock"

\* C4: a fetch that returns an empty (non-nil) list is cached like any other:
\* the entry takes the empty list and the fetch's timestamp plus expiration,
\* and a later call that finds it within the TTL returns the empty list
\* without fetching.
C4_EmptyListCached ==
    [][\A t \in Threads :
          /\ (Assigns(t) /\ trs[t] = EmptyList) =>
                /\ entries'[te[t]].value = EmptyList
                /\ entries'[te[t]].expireAt = FromUnix(tts[t]) + Expiration
          /\ (Locks(t) /\ entries[te[t]].value = EmptyList
                       /\ tnow[t] <= entries[te[t]].expireAt) =>
                /\ pc'[t] = "eunlock" /\ ~fetchLabels'[t]
                /\ entries'[te[t]].value = EmptyList]_vars

\* a call returns the cached empty list without having fetched
C4_Witness ==
    \E t \in Threads :
        /\ pc[t] = "eunlock" /\ ~fetchLabels[t]
        /\ RetVal(t) = EmptyList
        /\ tnow[t] <= entries[te[t]].expireAt

\* C5 (as claimed): a fetch that fails with a transient error leaves the
\* uid's entry as it was (value and expireAt unchanged).
C5_ErrorLeavesEntry ==
    [][\A t \in Threads :
          (Assigns(t) /\ tout[t] \in TransientErrors) =>
              /\ entries'[te[t]].value = entries[te[t]].value
              /\ entries'[te[t]].expireAt = entries[te[t]].expireAt]_vars

\* C5 (amended): a fetch that fails with a transient error stores the empty
\* list in the uid's entry, with expireAt = (second in which the fetch
\* began) + expiration, so the failure is cached and calls within the TTL
\* do not fetch again.
C5_ErrorCachedAsEmpty ==
    [][\A t \in Threads :
          (Assigns(t) /\ tout[t] \in TransientErrors) =>
              /\ entries'[te[t]].value = EmptyList
              /\ entries'[te[t]].expireAt = FromUnix(tts[t]) + Expiration
              /\ Unix(tnow[t]) <= tts[t] /\ tts[t] <= Unix(clock)
              /\ ~NeedFetch(entries'[te[t]], FromUnix(tts[t]) + Expiration)]_vars

\* a failed fetch has been stored and the entry is still within its TTL
C5_Witness ==
    \E t \in Threads :
        /\ Fetched(t) /\ tout[t] = "non200"
        /\ entries[te[t]].value = EmptyList
        /\ clock <= entries[te[t]].expireAt

\* C6: MustLoadLabels always returns a list; after a fetch it returns the
\* fetched list on success and the empty list for every other outcome
\* (transport error, non-200, empty or malformed body, gate closed, canceled).
C6_NeverFails ==
    \A t \in Threads :
        Fetched(t) =>
            /\ tout[t] \in {"ok", "gateclosed", "ctxdone", "canceled"} \cup TransientErrors
            /\ tout[t] = "ok" => RetVal(t) = trs[t]
            /\ tout[t] # "ok" => RetVal(t) = EmptyList
            /\ RetVal(t) \in ServerResults

\* a call whose fetch found the gate closed is about to return the empty list
C6_Witness ==
    \E t \in Threads :
        /\ Fetched(t) /\ tout[t] = "gateclosed"
        /\ RetVal(t) = EmptyList

\* C10 (as claimed): a transport error, a non-200 status and an empty or
\* malformed body each lead to CountFailure, and only a successful fetch
\* leads to Reset.
C10_ErrorsCountFailure ==
    [][\A t \in Threads :
          (pc[t] = "http" /\ pc'[t] # "http") =>
              /\ tout'[t] \in TransientErrors => pc'[t] = "cfadd"
              /\ pc'[t] = "reset" => tout'[t] = "ok"]_vars

\* the step in which the call of t leaves the write-locked part of mustLoadEntry
Writes(t) == pc[t] = "wbody" /\ pc'[t] = "elock"
\* ... and makes a round in it
Rotates(t) == Writes(t) /\ liveMap' = EmptyMap
\* the non-nil entries of a map
EntriesOf(m) == Range(m) \ {Nil}
\* uid u was live one rotation ago and has not been asked for since
InStaleOnly(u) == u \notin DOMAIN liveMap /\ u \in DOMAIN staleMap /\ staleMap[u] # Nil

\* C7: a call for a uid whose entry is one rotation old settles on that very
\* entry, unchanged, and moves it from staleMap to liveMap (leaving a tombstone;
\* if the same call makes a round, the entry is in the new staleMap); when the
\* call then takes the entry lock and the entry is non-nil and not expired, it
\* returns the cached value without fetching.
C7_PromoteKeepsCache ==
    [][\A t \in Threads :
          /\ (Writes(t) /\ InStaleOnly(tuid[t])) =>
                LET e == staleMap[tuid[t]]
                IN /\ te'[t] = e
                   /\ entries'[e] = entries[e]
                   /\ IF Rotates(t)
                      THEN staleMap'[tuid[t]] = e
                      ELSE liveMap'[tuid[t]] = e /\ staleMap'[tuid[t]] = Nil
          /\ (Locks(t) /\ ~Stale(entries[te[t]], tnow[t])) =>
                /\ pc'[t] = "eunlock" /\ ~fetchLabels'[t]
                /\ RetVal(t)' = entries[te[t]].value]_vars

\* a call returns, without fetching, the value of an entry that was promoted
C7_Witness ==
    \E t \in Threads :
        /\ pc[t] = "eunlock" /\ ~fetchLabels[t]
        /\ tuid[t] \in DOMAIN staleMap /\ staleMap[tuid[t]] = Nil
        /\ tuid[t] \in DOMAIN liveMap /\ liveMap[tuid[t]] = te[t]
        /\ LenV(RetVal(t)) > 0

\* C8: liveMap never holds more than maxCacheSize + 1 uids; the insertion that
\* brings it above maxCacheSize makes a round, after which liveMap is empty
\* and staleMap is the generation that was live (the inserted entry
\* included); between rounds no entry leaves the two maps.
C8_RoundKeepsGeneration ==
    [][/\ Cardinality(DOMAIN liveMap') <= maxCacheSize + 1
       /\ \A t \in Threads :
             /\ (Writes(t) /\ Cardinality(DOMAIN liveMap \cup {tuid[t]}) > maxCacheSize)
                   => Rotates(t)
             /\ Rotates(t) =>
                   /\ Cardinality(DOMAIN liveMap') = 0
                   /\ EntriesOf(liveMap) \subseteq EntriesOf(staleMap')
                   /\ te'[t] \in EntriesOf(staleMap')
                   /\ DOMAIN staleMap' = DOMAIN liveMap \cup {tuid[t]}
       /\ (\A t \in Threads : ~Rotates(t)) => MapEntries \subseteq MapEntries']_vars

\* right after the insertion of uid number maxCacheSize + 1: liveMap is empty
\* and the whole generation is in staleMap
C8_Witness ==
    /\ liveMap = EmptyMap
    /\ Cardinality(EntriesOf(staleMap)) = maxCacheSize + 1
    /\ \E t \in Threads : pc[t] = "elock" /\ te[t] \in EntriesOf(staleMap)

\* C9: each CountFailure adds one, so n calls from 0 close the gate and more
\* calls keep it closed; the call that reaches n goes on to arm the retry
\* timer; the gate changes only by these calls and by the timer; when the
\* timer fires, failures is n - 1 and the gate is healthy with no Reset, so
\* that one more CountFailure closes it again; a closed gate has its timer
\* pending or about to be armed.
C9_GateReopensByTimer ==
    [][/\ \A t \in Threads :
             (pc[t] = "cfadd" /\ pc'[t] # "cfadd") =>
                 /\ hcFailures' = hcFailures + 1
                 /\ (hcFailures' >= FailuresThreshold) = ~MaybeHealthy'
                 /\ (hcFailures' = FailuresThreshold) = (pc'[t] = "cfarm")
       /\ \A i \in TimerIds :
             (timers[i] # 0 /\ timers'[i] = 0) =>
                 /\ clock >= timers[i]
                 /\ hcFailures' = FailuresThreshold - 1
                 /\ MaybeHealthy'
       /\ (hcFailures' # hcFailures) =>
             \/ \E t \in Threads : pc[t] = "cfadd" /\ pc'[t] # "cfadd"
             \/ \E i \in TimerIds : timers[i] # 0 /\ timers'[i] = 0
       /\ ~MaybeHealthy' =>
             \/ \E i \in TimerIds : timers'[i] # 0
             \/ \E t \in Threads : pc'[t] = "cfarm"]_vars

\* the gate is closed for the second time: the first timer has fired and the
\* CountFailure that followed has armed the second
C9_Witness ==
    /\ ~MaybeHealthy
    /\ hcTimer = 2 /\ timers[2] # 0 /\ timers[1] = 0

\* the retry timer has fired and no fetch has failed or succeeded since
Readmitted ==
    /\ hcFailures = FailuresThreshold - 1
    /\ hcTimer # Nil /\ timers[hcTimer] = 0
    /\ \A t \in Threads : pc[t] \in {"idle", "mget"}

\* C11 (as claimed): after the retry timer re-admits, only one of the
\* concurrent MustGetUserLabels calls issues a request until the outcome of
\* that probe is known: once one call has been admitted, the gate refuses
\* the calls that are still at its check.
C11_OneProbePerRetry ==
    [][\A t, w \in Threads :
          (t # w /\ Readmitted /\ pc[t] = "mget" /\ pc[w] = "mget" /\ pc'[t] = "http")
              => ~MaybeHealthy']_vars

\* C12: a call that finds the gate closed issues no request: it goes straight
\* to its return with the empty list and the current second as timestamp,
\* and leaves failures, the timer handle and the timers as they are.
C12_ClosedGateNoRequest ==
    [][\A t \in Threads :
          (pc[t] = "mget" /\ ~MaybeHealthy /\ pc'[t] # "mget") =>
              /\ pc'[t] = "assign"
              /\ trs'[t] = EmptyList
              /\ tts'[t] = Unix(clock)
              /\ tout'[t] = "gateclosed"
              /\ hcFailures' = hcFailures
              /\ hcTimer' = hcTimer /\ timers' = timers]_vars

\* a call has been refused by the closed gate
C12_Witness ==
    \E t \in Threads :
        /\ pc[t] = "assign" /\ tout[t] = "gateclosed"
        /\ trs[t] = EmptyList /\ tts[t] = Unix(clock)
        /\ hcFailures >= FailuresThreshold

\* C13: the timestamp of a response replaces now only when it is positive
\* and before now (a future, zero or negative one leaves now), so the
\* timestamp a fetch returns is never after the second it began in, and the
\* entry's expireAt is never after (time of the fetch) + expiration.
C13_TimestampClamped ==
    [][/\ \A t \in Threads :
             /\ (pc[t] = "http" /\ tout'[t] = "ok") =>
                   /\ tts'[t] = tts[t] \/ (0 < tts'[t] /\ tts'[t] < tts[t])
                   /\ tts'[t] <= Unix(clock)
             /\ Assigns(t) =>
                   /\ entries'[te[t]].expireAt = FromUnix(tts[t]) + Expiration
                   /\ entries'[te[t]].expireAt <= clock + Expiration
       /\ \A now \in 1..Unix(MaxClock) : \A stamp \in ServerTimestamps(now) :
             ClampTimestamp(stamp, now) = IF stamp <= 0 \/ stamp >= now THEN now ELSE stamp]_vars

\* a positive past timestamp of the label service has been used as given
C13_Witness ==
    \E t \in Threads :
        /\ Fetched(t) /\ tout[t] = "ok"
        /\ tts[t] = 1 /\ tts[t] < Unix(tnow[t])
        /\ entries[te[t]].expireAt = FromUnix(1) + Expiration

\* the fetch outcomes of a canceled context: seen before the request
\* (ctx.Err) or as the error of client.Do
CanceledOutcomes == {"ctxdone", "canceled"}

\* C14: a fetch whose context is canceled, before or during the request,
\* makes no gate operation (failures, timer handle and timers unchanged by
\* it) and hands the empty list to MustLoadLabels, which returns a list
\* without labels.
C14_CancelNotCounted ==
    [][\A t \in Threads :
          /\ (pc[t] \in {"mget", "http"} /\ tout'[t] \in CanceledOutcomes) =>
                /\ pc'[t] = "assign"
                /\ trs'[t] = EmptyList
                /\ hcFailures' = hcFailures
                /\ hcTimer' = hcTimer /\ timers' = timers
          /\ (Assigns(t) /\ tout[t] \in CanceledOutcomes) =>
                /\ hcFailures' = hcFailures
                /\ LenV(entries'[te[t]].value) = 0]_vars

\* a call whose request was canceled returns while failures have been counted
C14_Witness ==
    \E t \in Threads :
        /\ Fetched(t) /\ tout[t] = "canceled"
        /\ LenV(RetVal(t)) = 0
        /\ hcFailures = FailuresThreshold - 1 /\ hcFailures > 0

\* the uid an edge gateway derives for the request
LocalUID == IF req.userID = Empty /\ canary.sticky THEN AnonID ELSE req.userID

\* C15 (as claimed): on an edge gateway, whatever the client sends, the uid
\* and the product the next hop reads in trust mode from the forwarded
\* X-Canary are empty or the locally derived uid and the configured product.
C15_TrustedFieldsLocal ==
    (stage = "done" /\ ~canary.forwardLabel) =>
        /\ down.uid \in {Empty, LocalUID}
        /\ down.product \in {Empty, Product}

\* C16: parsed without trust, every X-Canary input leaves product and uid
\* empty, and all other slots are what the parse with trust gives; the
\* feeds from the cookie and the label map leave them empty as well.
C16_UntrustedParse ==
    LET u == fromHeader(req.xcanary, FALSE)
        t == fromHeader(req.xcanary, TRUE)
    IN /\ u.product = Empty /\ u.uid = Empty
       /\ u = [t EXCEPT !.product = Empty, !.uid = Empty]
       /\ (stage = "fallback") => info = u
       /\ (stage = "identify") => (info.product = Empty /\ info.uid = Empty)

\* an edge gateway has parsed a header that carries uid= and product= tokens
C16_Witness ==
    /\ stage = "fallback" /\ ~canary.forwardLabel
    /\ fromHeader(req.xcanary, TRUE).uid = <<"e">>
    /\ fromHeader(req.xcanary, TRUE).product = <<"e">>
    /\ info.label = <<"a", "b">> /\ info.nofallback
    /\ info.uid = Empty /\ info.product = Empty

\* C17 (as claimed): for every canaryHeader H with a non-empty label,
\* parsing in trust mode the value that serializing H produces gives H.
C17_RoundTrip ==
    (stage = "done" /\ info.label # Empty) => down = info

\* C18: with forwardLabel the request's X-Canary, the response writer and
\* the set of things consulted never change (nothing is consulted, no
\* cookie is set), info is the trust-mode parse of the header, the steps of
\* the edge gateway are skipped, and the rate-limit key is still set.
C18_ForwardLabelFrame ==
    [][canary.forwardLabel =>
          /\ req'.xcanary = req.xcanary
          /\ rw' = rw /\ rw = NewResponse
          /\ calls' = {}
          /\ stage' \notin {"fallback", "identify", "load", "write"}
          /\ (stage = "parse" /\ stage' # "parse") => info' = fromHeader(req.xcanary, TRUE)
          /\ (stage # "parse") => info' = info
          /\ (stage = "ratelimit" /\ stage' # "ratelimit" /\ Len(canary.rateLimitKey) > 0)
                => /\ req'.ratelimit # <<>>
                   /\ req'.ratelimit[1] = info.uid \o <<":">> \o req.xkey]_vars

\* an internal gateway has served a request that an edge gateway would have
\* resolved from cookie, label map, uid extractor and store
C18_Witness ==
    /\ stage = "done" /\ canary.forwardLabel
    /\ canary.loadLabels /\ canary.sticky /\ canary.labelsMap
    /\ req.cookie.present /\ req.mapped # Empty /\ req.userID # Empty
    /\ info.label = Empty /\ info.uid = <<"e">> /\ info.product = <<"e">>
    /\ req.ratelimit = << <<"e", ":", "k">> >>
    /\ calls = {} /\ rw = NewResponse

\* C19: the store is consulted exactly when it is enabled, no label has been
\* resolved and the uid is non-empty; the label then becomes that of the
\* first element of the returned list that matches both the request's client
\* and its channel, and stays empty when no element matches both.
C19_FirstMatchingLabel ==
    [][(stage = "load" /\ stage' # "load") =>
          LET consult == canary.loadLabels /\ info.label = Empty /\ info.uid # Empty
              list == storeLabels.list
              M == {i \in 1..Len(list) : /\ MatchClient(list[i], info.client)
                                         /\ MatchChannel(list[i], info.channel)}
          IN /\ ("store" \in calls') = consult
             /\ "store" \notin calls
             /\ (consult /\ M # {}) =>
                   \E i \in M : /\ \A j \in M : i <= j
                                /\ info' = [info EXCEPT !.label = list[i].Label]
             /\ (~consult \/ M = {}) => info' = info]_vars

\* the third element of the list was chosen: the first two did not match
C19_Witness ==
    /\ stage = "write" /\ "store" \in calls
    /\ Len(storeLabels.list) = 3
    /\ info.client = Empty /\ info.channel = Empty
    /\ info.label = storeLabels.list[3].Label

\* C20 (as claimed): on an edge gateway, when no label is resolved, the
\* request's X-Canary header is left as it was and nothing is written to the
\* response's X-Canary.
C20_NoLabelNoHeader ==
    [][(stage = "write" /\ stage' # "write" /\ info.label = Empty) =>
          /\ req'.xcanary = req.xcanary
          /\ rw'.xcanary = rw.xcanary]_vars

\* C21 (as claimed): with addRequestID, after processRequestID the request's
\* X-Request-Id is non-empty and equal to the X-Request-Id of the response,
\* whichever header supplied the id, and a second processRequestID changes
\* neither the request nor the response.
C21_RequestIDWritten ==
    (stage = "parse" /\ canary.addRequestID) =>
        /\ req.xRequestID # Empty
        /\ req.xRequestID = rw.xRequestID
        /\ \A g \in GeneratedIDs :
              processRequestID(canary, req, rw, g) = [req |-> req, rw |-> rw]

\* what the piece named k of c.rateLimitKey evaluates to
pieceValue(k, ch, r) ==
    IF k = "UID" THEN ch.uid
    ELSE IF k = "Method" THEN r.method
    ELSE IF k = "Path" THEN r.path
    ELSE IF k = "Host" THEN r.host
    ELSE HeaderGet(r, k)

\* C22 (as claimed): with rateLimitKey configured, the key is the ':'-join of
\* the pieces that are not empty (an empty UID, Path or Host included among
\* the dropped ones), or X-Real-Ip, else the remote host, else the URL when
\* all pieces are empty; so X-Ratelimit-Key is never empty and has no empty
\* component.
C22_RateLimitKeyNoEmptyPiece ==
    (stage = "next" /\ Len(canary.rateLimitKey) > 0) =>
        LET ks == canary.rateLimitKey
            kept == SelectSeq([j \in 1..Len(ks) |-> pieceValue(ks[j], info, req)],
                              LAMBDA v : v # Empty)
        IN /\ Len(req.ratelimit) = 1
           /\ req.ratelimit[1] # Empty
           /\ \A j \in 1..Len(Split(req.ratelimit[1], ":")) :
                 Split(req.ratelimit[1], ":")[j] # Empty
           /\ req.ratelimit[1] =
                 IF Len(kept) > 0 THEN Join(kept, <<":">>)
                 ELSE IF req.realIp # Empty THEN req.realIp
                 ELSE IF req.remote.ok THEN req.remote.host
                 ELSE req.url

\* the names a request can ask the handlers for
MatchTargets ==
    {ServiceName, <<"c">>}
        \cup {ServiceName \o <<"-">> \o l :
                l \in {<<"b">>, <<"b", "c">>, <<"b", "d">>, <<"b", "c", "d">>, <<"x">>}}

\* C23: for the handlers registered so far and any target name, Match with
\* fallback returns a handler with the longest name that is a prefix of the
\* target (one named exactly as the target when there is one) and nil when
\* no name is a prefix; without fallback it returns a handler named exactly
\* as the target, or nil.
C23_MatchLongestPrefix ==
    /\ \A target \in MatchTargets :
          LET hs == balancer.handlers
              pre == {j \in 1..Len(hs) : HasPrefix(target, hs[j].name)}
              exact == {j \in 1..Len(hs) : hs[j].name = target}
              m == Match(hs, target, TRUE)
              e == Match(hs, target, FALSE)
          IN /\ (pre = {}) => m = 0
             /\ (pre # {}) => /\ m \in pre
                              /\ \A j \in pre : Len(hs[j].name) <= Len(hs[m].name)
             /\ (exact # {}) => (m \in exact /\ e \in exact)
             /\ (exact = {}) => e = 0
    /\ (breq.outcome # "none" /\ breq.label # Empty) =>
          (breq.outcome = "variant") = (Match(balancer.handlers, breq.name, breq.fallback) # 0)

\* a request for co-bd is served by co-b, registered along with the shorter co
C23_Witness ==
    /\ breq.outcome = "variant" /\ breq.fallback
    /\ breq.name = ServiceName \o <<"-", "b", "d">>
    /\ balancer.handlers[breq.handler].name = ServiceName \o <<"-", "b">>
    /\ \E j \in 1..Len(balancer.handlers) : balancer.handlers[j].name = ServiceName

\* C24: a served request ended in one of three ways: a variant handler
\* served (label non-empty and Match found it); the default handler served,
\* only when there is one and the label is empty or nofallback is not set;
\* or 500. A labelled request with nofallback and no variant named exactly
\* as its target gets 500 even when there is a default handler.
C24_ThreeOutcomes ==
    (breq.outcome # "none") =>
        LET hs == balancer.handlers
            exact == {j \in 1..Len(hs) : hs[j].name = breq.name}
        IN /\ breq.outcome \in {"variant", "default", "500"}
           /\ (breq.outcome = "variant") =>
                 (breq.label # Empty /\ breq.handler \in 1..Len(hs))
           /\ (breq.outcome = "default") =>
                 (balancer.defaultHandler /\ (breq.label = Empty \/ breq.fallback))
           /\ (breq.outcome = "500") =>
                 (~balancer.defaultHandler \/ (breq.label # Empty /\ ~breq.fallback))
           /\ (breq.label # Empty /\ ~breq.fallback /\ exact = {}) => breq.outcome = "500"

\* 500 with a default handler and a handler whose name is a prefix of the target
C24_Witness ==
    /\ breq.outcome = "500" /\ balancer.defaultHandler
    /\ breq.label = <<"b", "d">> /\ ~breq.fallback
    /\ \E j \in 1..Len(balancer.handlers) : HasPrefix(breq.name, balancer.handlers[j].name)

\* C25 (as claimed): the label and the fallback flag the Balancer extracts
\* from X-Canary are the label the middleware's parser reads and the
\* negation of its nofallback, for every form of the header.
C25_SameParse ==
    (breq.outcome # "none") =>
        /\ breq.label = fromHeader(breq.xcanary, TRUE).label
        /\ breq.fallback = ~fromHeader(breq.xcanary, TRUE).nofallback

\* C26 (as claimed): the name under which a service
\* namespace-serviceName[-variant]-port is registered is
\* serviceName[-variant]: it starts with the service name, the namespace is
\* removed even when it contains or equals the service name, and the last
\* character is neither a digit nor "-".
C26_Normalized ==
    \A j \in 1..Len(balancer.handlers) :
        LET h == balancer.handlers[j]
        IN /\ h.name = balancer.serviceName
                         \o (IF h.svc.variant # Empty THEN <<"-">> \o h.svc.variant ELSE Empty)
           /\ HasPrefix(h.name, balancer.serviceName)
           /\ h.name[Len(h.name)] \notin Digits \cup {"-"}

\* the store has been constructed again with another configuration
Reconfigured == cfg # [maxCacheSize |-> MaxCacheSize, cacheCleanDuration |-> CacheCleanDuration]

\* C27: constructing the LabelStore again under the same name keeps the
\* Store: the step leaves both maps, the entries and shouldRound as they
\* were; maxCacheSize and cacheCleanDuration are those of the latest
\* construction; afterwards a call that finds an unexpired value in its
\* entry returns it without a fetch.
C27_ReconfigureKeepsStore ==
    [][/\ maxCacheSize' = cfg'.maxCacheSize
       /\ cacheCleanDuration' = cfg'.cacheCleanDuration
       /\ (cfg' # cfg) => /\ liveMap' = liveMap /\ staleMap' = staleMap
                          /\ entries' = entries /\ shouldRound' = shouldRound
       /\ \A t \in Threads :
             (/\ Reconfigured /\ pc[t] = "elock" /\ pc'[t] # "elock"
              /\ ~Stale(entries[te[t]], tnow[t]))
                 => /\ pc'[t] = "eunlock" /\ ~fetchLabels'[t]
                    /\ entries'[te[t]].value = entries[te[t]].value]_vars

\* after a reconfiguration a call returns a cached value without a fetch
C27_Witness ==
    /\ Reconfigured
    /\ pc[1] = "eunlock" /\ ~fetchLabels[1]
    /\ ~RetVal(1).isNil
    /\ maxCacheSize = MaxCacheSize + 1 /\ cacheCleanDuration = CacheCleanDuration + 1

\* the write-locked step of the call of t rotates when due says so and
\* only extends liveMap otherwise; uid is the requested key
RotatesIff(t, due) ==
    LET u == tuid[t]
        live == DOMAIN liveMap \cup {u}
    IN /\ smuW = t
       /\ due => /\ liveMap' = EmptyMap
                 /\ DOMAIN staleMap' = live
                 /\ \A k \in DOMAIN liveMap : staleMap'[k] = liveMap[k]
                 /\ staleMap'[u] = te'[t]
                 /\ shouldRound' = tnow[t] + cacheCleanDuration
       /\ ~due => /\ DOMAIN liveMap' = live
                  /\ \A k \in DOMAIN liveMap : liveMap'[k] = liveMap[k]
                  /\ liveMap'[u] = te'[t]
                  /\ DOMAIN staleMap' = DOMAIN staleMap
                  /\ shouldRound' = shouldRound

\* a step outside the write-locked part of mustLoadEntry leaves the maps alone
NoOtherStepReplaces ==
    (\A t \in Threads : ~Writes(t)) =>
        /\ liveMap' = liveMap /\ staleMap' = staleMap /\ shouldRound' = shouldRound

\* C28 (as claimed): the round is made in mustLoadEntry under the write
\* lock exactly when, with the requested uid in liveMap, len(liveMap) >
\* maxCacheSize or now >= shouldRound; it makes staleMap the old liveMap,
\* liveMap empty and shouldRound now + cacheCleanDuration, and no other step
\* replaces a map.
C28_RoundWhenDue ==
    [][/\ \A t \in Threads :
             Writes(t) =>
                 RotatesIff(t, \/ Cardinality(DOMAIN liveMap \cup {tuid[t]}) > maxCacheSize
                               \/ tnow[t] >= shouldRound)
       /\ NoOtherStepReplaces]_vars

\* C28 (amended): the same, with the round made exactly when len(liveMap) >
\* maxCacheSize or shouldRound is strictly before now.
C28_RoundWhenPast ==
    [][/\ \A t \in Threads :
             Writes(t) =>
                 RotatesIff(t, \/ Cardinality(DOMAIN liveMap \cup {tuid[t]}) > maxCacheSize
                               \/ tnow[t] > shouldRound)
       /\ NoOtherStepReplaces]_vars

\* a round made because of the time alone
C28_Witness ==
    \E t \in Threads :
        /\ pc[t] = "elock" /\ liveMap = EmptyMap
        /\ shouldRound = tnow[t] + cacheCleanDuration
        /\ EntriesOf(staleMap) # {}
        /\ Cardinality(DOMAIN staleMap) <= maxCacheSize

\* no uid has an entry in both maps and no entry is in both maps
OneGeneration ==
    /\ \A u \in Uids :
          ~(/\ u \in DOMAIN liveMap /\ liveMap[u] # Nil
            /\ u \in DOMAIN staleMap /\ staleMap[u] # Nil)
    /\ EntriesOf(liveMap) \cap EntriesOf(staleMap) = {}

\* C29: in every reachable state, for every uid at most one of liveMap[uid]
\* and staleMap[uid] is a non-nil entry and no entry is referenced from
\* both maps; a promotion from staleMap that is not followed by a round in
\* the same call leaves nil in the stale slot.
C29_OneMapPerEntry ==
    /\ OneGeneration
    /\ [][/\ OneGeneration'
          /\ \A t \in Threads :
                (Writes(t) /\ InStaleOnly(tuid[t]) /\ ~Rotates(t))
                    => /\ liveMap'[tuid[t]] = staleMap[tuid[t]]
                       /\ tuid[t] \in DOMAIN staleMap'
                       /\ staleMap'[tuid[t]] = Nil]_vars

\* a promoted entry: in liveMap, with the tombstone in staleMap, next to an
\* entry of the previous generation
C29_Witness ==
    \E u \in Uids :
        /\ u \in DOMAIN liveMap /\ liveMap[u] # Nil
        /\ u \in DOMAIN staleMap /\ staleMap[u] = Nil
        /\ ~entries[liveMap[u]].value.isNil
        /\ EntriesOf(staleMap) # {}

\* the call of t returns the entry it read under the read lock
FastPath(t) == pc[t] = "runlock" /\ pc'[t] = "elock"

\* C30: an entry leaves the store only through a rotation, and exactly at the
\* second one after its last access.  Every access leaves the entry in liveMap
\* (the read path returns it from there, the write path finds, promotes or
\* installs it there); a rotation keeps what liveMap held, the entry of the
\* rotating call included, as the new staleMap and drops every other entry of
\* the old staleMap; no other step removes an entry from the maps.
C30_EvictedAtSecondRound ==
    [][/\ \A t \in Threads :
             /\ FastPath(t) => te'[t] \in EntriesOf(liveMap)
             /\ (Writes(t) /\ ~Rotates(t)) => te'[t] \in EntriesOf(liveMap')
             /\ Rotates(t) =>
                    /\ EntriesOf(liveMap) \subseteq EntriesOf(staleMap')
                    /\ te'[t] \in EntriesOf(staleMap')
                    /\ \A e \in EntriesOf(staleMap) \ {te'[t]} : e \notin MapEntries'
       /\ (\A t \in Threads : ~Rotates(t)) => MapEntries \subseteq MapEntries']_vars
\* a call still holds an entry that two rotations have dropped meanwhile
C30_Witness ==
    \E t \in Threads :
        /\ pc[t] \in {"elock", "mget", "eunlock"}
        /\ te[t] # Nil
        /\ te[t] \notin MapEntries

\* the timers armed and not yet fired or stopped
PendingTimers == {i \in TimerIds : timers[i] # 0}
\* the calls that have counted the threshold and are about to arm
Arming == {t \in Threads : pc[t] = "cfarm"}
\* the call of t makes its increment
Increments(t) == pc[t] = "cfadd" /\ pc'[t] # "cfadd"

\* C31: of the CountFailure calls of one trip exactly one arms the retry
\* timer: the call whose post-increment value equals the threshold goes on to
\* arm, a call that observes a larger (or smaller) value arms nothing, a timer
\* is armed only by a call that counted the threshold, and that call arms one
\* timer; so at any moment at most one timer is un-fired or about to be armed.
C31_OneArmPerTrip ==
    /\ Cardinality(PendingTimers) + Cardinality(Arming) <= 1
    /\ [][/\ Cardinality(PendingTimers') + Cardinality(Arming') <= 1
          /\ \A t \in Threads :
                Increments(t) =>
                    /\ (hcFailures' = FailuresThreshold) => t \in Arming'
                    /\ (hcFailures' # FailuresThreshold) =>
                           /\ t \notin Arming'
                           /\ timers' = timers /\ hcTimer' = hcTimer
          /\ \A i \in TimerIds :
                (timers[i] = 0 /\ timers'[i] # 0) =>
                    /\ \E a \in Arming : Arming' = Arming \ {a}
                    /\ PendingTimers' = PendingTimers \cup {i}
                    /\ hcTimer' = i]_vars
\* more calls have piled on after the threshold, and one timer is pending
C31_Witness ==
    /\ hcFailures > FailuresThreshold
    /\ Cardinality(PendingTimers) = 1
    /\ \E i \in TimerIds : timers[i] = 0 /\ hcTimer # i
    /\ hcTimer = 2

\* the call of t completes a Reset
ResetDone(t) == pc[t] \in {"reset", "resetstop"} /\ pc'[t] \notin {"reset", "resetstop"}
\* a timer fires
Fires(i) == timers[i] # 0 /\ timers'[i] = 0 /\ hcFailures' # hcFailures

\* C32: when a Reset has completed, failures was set to 0 by it, the timer
\* handle is nil and no timer is left to fire, also when CountFailure calls
\* run concurrently; a timer that fires finds failures at or above the
\* threshold and lowers it to threshold - 1.
C32_ResetCancelsTimer ==
    [][/\ \A t \in Threads :
             ResetDone(t) =>
                 /\ hcTimer' = Nil
                 /\ PendingTimers' = {}
       /\ \A t \in Threads :
             (pc[t] = "reset" /\ pc'[t] # "reset") => hcFailures' = 0
       /\ \A i \in TimerIds :
             Fires(i) => /\ hcFailures >= FailuresThreshold
                         /\ hcFailures' = FailuresThreshold - 1]_vars

\* the call consults the store for a request that names no client and no channel
LoadsForBare ==
    /\ stage = "load" /\ stage' # "load"
    /\ canary.loadLabels /\ info.label = Empty /\ info.uid # Empty
    /\ info.client = Empty /\ info.channel = Empty
\* the label lists no client and no channel, or lists the empty one
Unconstrained(l) ==
    /\ Len(l.Clients) = 0 \/ \E i \in 1..Len(l.Clients) : l.Clients[i] = Empty
    /\ Len(l.Channels) = 0 \/ \E i \in 1..Len(l.Channels) : l.Channels[i] = Empty

\* C33 (as claimed): for a request whose client and channel are both empty
\* the first label of any non-empty list returned by the store is chosen.
C33_BareRequestFirstLabel ==
    [][(LoadsForBare /\ Len(storeLabels.list) > 0) =>
          info'.label = storeLabels.list[1].Label]_vars

\* C33 (amended): for a request whose client and channel are both empty the
\* label chosen is that of the first element of the list that constrains
\* neither clients nor channels; elements that name clients or channels are
\* skipped, and no label is chosen when every element names some.
C33_BareRequestFirstUnconstrained ==
    [][LoadsForBare =>
          LET list == storeLabels.list
              F == {i \in 1..Len(list) : Unconstrained(list[i])}
          IN /\ \A i \in F : (\A j \in F : i <= j) => info'.label = list[i].Label
             /\ F = {} => info'.label = Empty]_vars
\* the only label of the list names clients and a channel: none was chosen
C33_Witness ==
    /\ stage = "write" /\ "store" \in calls
    /\ info.client = Empty /\ info.channel = Empty
    /\ Len(storeLabels.list) = 1
    /\ Len(storeLabels.list[1].Clients) = 2
    /\ info.label = Empty

\* s without its p-th element
Without(s, p) == SubSeq(s, 1, p - 1) \o SubSeq(s, p + 1, Len(s))

\* C34: the handler list is ordered by name length, longest first, after any
\* sequence of AddService calls, and each call keeps the handlers it found in
\* their order and puts the new one behind every handler at least as long
\* and before every shorter one, so that equal lengths stay in insertion order.
C34_SortedStable ==
    /\ balancer.handlers = <<>>
    /\ [][LET old == balancer.handlers
               new == balancer'.handlers
           IN /\ \A i, j \in 1..Len(new) : i < j => Len(new[i].name) >= Len(new[j].name)
              /\ new # old =>
                    \E p \in 1..Len(new) :
                        /\ Without(new, p) = old
                        /\ \A i \in 1..(p - 1) : Len(new[i].name) >= Len(new[p].name)
                        /\ \A i \in (p + 1)..Len(new) : Len(new[i].name) < Len(new[p].name)]_vars
\* two different handlers of equal name length, a shorter one behind them and
\* a longer one in front
C34_Witness ==
    LET h == balancer.handlers
    IN /\ Len(h) = MaxHandlers
       /\ \E i \in 1..(Len(h) - 1) :
             /\ Len(h[i].name) = Len(h[i + 1].name)
             /\ h[i] # h[i + 1]
       /\ Len(h[1].name) > Len(h[Len(h)].name)

\* the positions at which a call holds the lock of its entry
EntryPcs == FetchPcs \cup {"assign", "eunlock"}

\* what each call holds at its position
LockScopes ==
    \A t \in Threads :
        /\ t \in smuR => pc[t] = "runlock"
        /\ smuW = t => pc[t] = "wbody"
        /\ pc[t] \in EntryPcs \cup {"elock"} => t \notin smuR /\ smuW # t
        /\ InFlight(t) => entries[te[t]].mu = t
        /\ \A e \in EntryIds : entries[e].mu = t => pc[t] \in EntryPcs /\ te[t] = e

\* C35: a call holds the store lock only while it reads the maps (read lock)
\* or looks up, promotes, installs and rotates (write lock), and the maps
\* change only under the write lock; while it waits for or holds an entry
\* lock, and so during the whole fetch, it holds no store lock; across the
\* fetch it holds the lock of its own entry and nothing else.
C35_LockScopes ==
    /\ LockScopes
    /\ [][/\ LockScopes'
          /\ <<liveMap, staleMap, shouldRound>>' # <<liveMap, staleMap, shouldRound>> =>
                /\ smuW \in Threads /\ pc[smuW] = "wbody"
                /\ smuR = {}]_vars
\* one call is fetching, another waits for the same entry, and the store lock
\* is free
C35_Witness ==
    \E t, w \in Threads :
        /\ pc[t] = "mget" /\ Waits(w, t)
        /\ smuW = NoThread /\ smuR = {}

\* C36: a call for uid 2 runs to completion whatever the calls for uid 1 do,
\* also when the fetch for uid 1 never returns and keeps the lock of uid 1's
\* entry: hit, miss, promotion and rotation of the call for uid 2 wait at
\* most for the store lock.
C36_OtherUidCompletes == (pc[2] # "idle") ~> (pc[2] = "idle")
\* the call for uid 2 is about to return while the fetch for uid 1 is in
\* flight, after a rotation it has made itself
C36_Witness ==
    /\ pc[1] = "mget" /\ entries[te[1]].mu = 1
    /\ pc[2] = "eunlock" /\ tuid[2] = 2
    /\ liveMap = EmptyMap /\ 2 \in DOMAIN staleMap

\* C37 (as claimed): a successful response whose result is absent or null is
\* stored as the empty list is, and a call that finds an entry a fetch has
\* written, within its TTL, returns it without fetching.
C37_NullResultCached ==
    [][\A t \in Threads :
          /\ (Stores(t) /\ tout[t] = "ok" /\ trs[t].isNil) =>
                 entries'[te[t]].value = EmptyList
          /\ (/\ Locks(t)
              /\ entries[te[t]].expireAt # ZeroTime
              /\ ~Before(entries[te[t]].expireAt, tnow[t])) =>
                 pc'[t] = "eunlock"]_vars

\* C38 (as claimed): whenever the gate is unhealthy a retry timer is pending,
\* or the call that counted the threshold is about to arm it, in every
\* interleaving of CountFailure, Reset and the timer; so a closed gate always
\* has something that will open it again.
C38_ClosedGateHasTimer == ~MaybeHealthy => (PendingTimers # {} \/ Arming # {})

\* C39: every MustLoadLabels call returns, whatever the other calls (same or
\* different uids, promotions, rotations) and updateConfig do, provided every
\* fetch returns: no call waits for ever for the store lock or an entry lock.
C39_EveryCallReturns == \A t \in Threads : (pc[t] # "idle") ~> (pc[t] = "idle")
\* after a reconfiguration, one call waits for the entry another call holds
\* while a rotation has just emptied liveMap
C39_Witness ==
    /\ cfg.maxCacheSize # MaxCacheSize
    /\ \E t, w \in Threads : Waits(w, t) /\ pc[t] = "eunlock"
    /\ liveMap = EmptyMap /\ staleMap # EmptyMap

\* the fetch outcomes in which the label service gave no answer because it
\* was not asked (gate closed) or the caller went away
NoAnswer == {"gateclosed"} \cup CanceledOutcomes

\* C40 (as claimed): a fetch that found the gate closed or whose context was
\* canceled stores nothing: the entry keeps its value and its expireAt, so
\* that the next call fetches.
C40_NoAnswerNotStored ==
    [][\A t \in Threads :
          (Assigns(t) /\ tout[t] \in NoAnswer) =>
              /\ entries'[te[t]].value = entries[te[t]].value
              /\ entries'[te[t]].expireAt = entries[te[t]].expireAt]_vars

\* C40 (amended): a fetch that found the gate closed or whose context was
\* canceled stores the empty list with expireAt = (second of the attempt) +
\* expiration, like a fetch that found no labels; a call that finds this
\* entry within its TTL returns the empty list without fetching, whatever
\* the gate says by then.
C40_NoAnswerCachedAsEmpty ==
    [][\A t \in Threads :
          /\ (Assigns(t) /\ tout[t] \in NoAnswer) =>
                 /\ entries'[te[t]].value = EmptyList
                 /\ entries'[te[t]].expireAt = FromUnix(tts[t]) + Expiration
                 /\ tts[t] <= Unix(clock)
          /\ (/\ Locks(t)
              /\ entries[te[t]].value = EmptyList
              /\ ~Before(entries[te[t]].expireAt, tnow[t])) =>
                 /\ pc'[t] = "eunlock"
                 /\ RetVal(t)' = EmptyList]_vars
\* a fetch canceled before the request has left the empty list in the entry,
\* with a full TTL ahead, while the gate is healthy
C40_Witness ==
    \E t \in Threads :
        /\ Fetched(t) /\ tout[t] = "ctxdone"
        /\ entries[te[t]].value = EmptyList
        /\ entries[te[t]].expireAt = FromUnix(tts[t]) + Expiration
        /\ clock < entries[te[t]].expireAt
        /\ MaybeHealthy

====
